---- MODULE Spec2Model ----
(***************************************************************************)
(* Verification model of the YouTube crawler: credential pool, entity      *)
(* store and statuses, keyword dispatch, retry wrappers and worker pool.   *)
(*                                                                         *)
(* Credential pool.  The repository has two APIKeyManager classes:         *)
(*   src/database/api_key_manager.py  (PostgreSQL, SQLAlchemy ORM)         *)
(*   src/utils/api_key_manager.py     (MongoDB, pymongo)                   *)
(* Each works on its own table; `backend` says which of the two a          *)
(* behaviour is about.  Every manager method opens its own session, so a   *)
(* method is a read of the row (SELECT / find_one) followed, in a second   *)
(* step, by its write (the UPDATE flushed by session.commit / update_one); *)
(* other sessions may run between the two.                                 *)
(***************************************************************************)
EXTENDS Integers, Sequences, FiniteSets, TLC

\* ------------------------------------------------------------------ bounds
MaxQuota == 2      \* initial budgets are 0..MaxQuota
MaxCost  == 2      \* charge costs are 0..MaxCost
MaxClock == 2      \* the wall clock runs 0..MaxClock
MaxOps   == 2      \* manager calls started by the worker sessions in a run
RotBudget == 4     \* the rotation scenario's budget B is 1..RotBudget

\* quota the reset script gives every key (reset_quota.py: reset_quota(api_key, 10000))
NewQuota == 10000

AllKeys  == {1, 2, 3}          \* api_key values
Sessions == {"w1", "w2"}       \* two workers, each with its own DB session
Backends == {"postgres", "mongo"}
None     == 0                  \* Python None as a get_api_key result

VARIABLES
    backend,    \* which manager/table the behaviour is about
    table,      \* api_key -> row [remaining_quota, status, last_updated]
    now,        \* datetime.utcnow() / datetime.now()
    sess,       \* worker session -> [pc, op, key, cost, snap, ret, seq]
    ops,        \* manager calls started so far
    expected,   \* api_key -> budget at (re)set minus the successful charges since
    rs,         \* the reset_quota.py run: [pc, todo, key, snap, clean]
    rot,        \* the rotation scenario's parameters [budget, cost]
    variant,    \* which bulk upsert the store behaviour is about
    store,      \* the collection/table: a sequence of documents
    call,       \* the last bulk upsert: [n, batch, inserted, updated, raised]
    ekind,      \* which collection the status behaviour is about
    ent,        \* external id -> stored status of the entity ("none": not stored)
    elast,      \* the last status operation: [op, ids, updated_count]
    kpath,      \* which keyword dispatcher the behaviour is about
    kstatus,    \* stored status of the keyword ("absent": no document)
    kw,         \* worker -> [pc, doc, creds, found, error] of its unit of work
    rkind,      \* which retry decorator the behaviour is about
    rt,         \* the wrapper call: [pc, attempt, result, exc, slept]
    rlog,       \* outcomes of the invocations of the wrapped operation so far
    wp,         \* the pool run: [service, num_threads, pc, fetched, skip, collected,
                \*                total_processed, total_children, errors]
    futures,    \* the partitions submitted: [batch, state, children, error]
    rqueue,     \* result_queue: the results put and not yet taken
    mq,         \* the consumer and its message: [kind, msg, state, deliveries, crawls,
                \*                crawl, outcome, signal]
    apool,      \* the pool documents the API client reads and charges: key -> row
    remote,     \* the remote API's own count: key -> calls it still accepts
    api,        \* the API client and the locals of its running call
    ledger,     \* key -> [charged: sum of update_quota amounts, spent: sum of used_quota]
    ex,         \* a run of crawl_videos_from_channels
    lf,         \* a run of crawl_comments_from_videos
    kb,         \* the threads of generate_and_crawl: thread -> its batch of keywords and how far it got
    bl,         \* the backlog of one collection and the runs working on it: the status of every record, and for every run its skip, the records it picked up and those still in its threads
    fr,         \* one client that repeats get_api_key() and update_quota(): its table of keys, its clock, the key it holds and the keys it acquired so far, each with what became of its charge
    si          \* workers calling insert_channel / insert_video: the number of documents the collection holds for every id, and for every worker the id it inserts and how far its call got

poolVars == <<backend, table, now, sess, ops, expected, rs, rot>>

\* the variables of the other components, which no pool action touches
storeVars == <<variant, store, call>>

\* entity statuses
entVars == <<ekind, ent, elast>>

\* keyword dispatch
kwVars == <<kpath, kstatus, kw>>

\* retry wrapper
retryVars == <<rkind, rt, rlog>>

\* worker pool
wpVars == <<wp, futures, rqueue>>

\* queue consumers
mqVars == <<mq>>

\* YouTube API client
apiVars == <<apool, remote, api, ledger>>

\* pipeline stages
stageVars == <<ex, lf>>

\* keyword batches
kbVars == <<kb>>

\* backlog
blVars == <<bl>>

\* rotation loop
frVars == <<fr>>

\* single-record inserts
siVars == <<si>>

notPool == <<storeVars, entVars, kwVars, retryVars, wpVars, mqVars, apiVars, stageVars, kbVars, blVars, frVars, siVars>>

\* the variables of the other components, which no store action touches
notStore == <<poolVars, entVars, kwVars, retryVars, wpVars, mqVars, apiVars, stageVars, kbVars, blVars, frVars, siVars>>

\* the variables of the other components, which no status action touches
notEnt == <<poolVars, storeVars, kwVars, retryVars, wpVars, mqVars, apiVars, stageVars, kbVars, blVars, frVars, siVars>>

\* the variables of the other components, which no dispatch action touches
notKw == <<poolVars, storeVars, entVars, retryVars, wpVars, mqVars, apiVars, stageVars, kbVars, blVars, frVars, siVars>>

\* the variables of the other components, which no wrapper action touches
notRetry == <<poolVars, storeVars, entVars, kwVars, wpVars, mqVars, apiVars, stageVars, kbVars, blVars, frVars, siVars>>

\* the variables of the other components, which no worker-pool action touches
notWp == <<poolVars, storeVars, entVars, kwVars, retryVars, mqVars, apiVars, stageVars, kbVars, blVars, frVars, siVars>>

\* the variables of the other components, which no consumer action touches
notMq == <<poolVars, storeVars, entVars, kwVars, retryVars, wpVars, apiVars, stageVars, kbVars, blVars, frVars, siVars>>

\* the variables of the other components, which no API client action touches
notApi == <<poolVars, storeVars, entVars, kwVars, retryVars, wpVars, mqVars, stageVars, kbVars, blVars, frVars, siVars>>

\* the variables of the other components, which no stage action touches
notStage == <<poolVars, storeVars, entVars, kwVars, retryVars, wpVars, mqVars, apiVars, kbVars, blVars, frVars, siVars>>

\* the variables of the other components, which no keyword-batch action touches
notKb == <<poolVars, storeVars, entVars, kwVars, retryVars, wpVars, mqVars, apiVars, stageVars, blVars, frVars, siVars>>

\* the variables of the other components, which no backlog action touches
notBl == <<poolVars, storeVars, entVars, kwVars, retryVars, wpVars, mqVars, apiVars, stageVars, kbVars, frVars, siVars>>

\* the variables of the other components, which no action of the rotation loop touches
notFr == <<poolVars, storeVars, entVars, kwVars, retryVars, wpVars, mqVars, apiVars, stageVars, kbVars, blVars, siVars>>

\* the variables of the other components, which no single-record insert touches
notSi == <<poolVars, storeVars, entVars, kwVars, retryVars, wpVars, mqVars, apiVars, stageVars, kbVars, blVars, frVars>>

vars == <<poolVars, notPool>>

NoRow == [remaining_quota |-> 0, status |-> "none", last_updated |-> 0]

Row(q, s, t) == [remaining_quota |-> q, status |-> s, last_updated |-> t]

\* ------------------------------------------------------- pure functions

\* APIKeyManager._get_status (both managers)
GetStatus(quota) == IF quota > 0 THEN "active" ELSE "unactive"

\* a use_quota that leaves last_updated as it was
use_quota_keep_time(obj, amount, t) ==
    IF obj.remaining_quota < amount
    THEN [ok |-> FALSE, obj |-> obj]
    ELSE LET left == obj.remaining_quota - amount
         IN  [ok  |-> TRUE,
              obj |-> [remaining_quota |-> left,
                       status |-> IF left <= 0 THEN "unactive" ELSE obj.status,
                       last_updated |-> obj.last_updated]]

\* a use_quota that clamps at zero instead of refusing
use_quota_clamp(obj, amount, t) ==
    LET left == IF obj.remaining_quota < amount THEN 0 ELSE obj.remaining_quota - amount
    IN  [ok  |-> TRUE,
         obj |-> [remaining_quota |-> left,
                  status |-> IF left <= 0 THEN "unactive" ELSE obj.status,
                  last_updated |-> t]]

\* YouTubeApiKey.use_quota on a loaded object at time t: <<returned bool, object>>
use_quota(obj, amount, t) ==
    IF obj.remaining_quota < amount
    THEN [ok |-> FALSE, obj |-> obj]
    ELSE LET left == obj.remaining_quota - amount
         IN  [ok  |-> TRUE,
              obj |-> [remaining_quota |-> left,
                       status |-> IF left <= 0 THEN "unactive" ELSE obj.status,
                       last_updated |-> t]]

\* a reset that restores the quota and leaves the status alone
reset_quota_keep_status(obj, new_quota, t) ==
    [remaining_quota |-> new_quota, status |-> obj.status, last_updated |-> t]

\* YouTubeApiKey.reset_quota on a loaded object
reset_quota_obj(obj, new_quota, t) ==
    [remaining_quota |-> new_quota, status |-> "active", last_updated |-> t]

\* deactivate_key / activate_key body on a loaded object
set_status_obj(obj, s, t) ==
    [remaining_quota |-> obj.remaining_quota, status |-> s, last_updated |-> t]

\* session.commit(): the unit of work emits UPDATE ... SET only for the
\* attributes whose value differs from the one loaded; the row keeps what
\* other sessions committed to the other columns.  No UPDATE at all when
\* nothing differs.
Flush(row, loaded, obj) ==
    IF obj = loaded THEN row
    ELSE [remaining_quota |-> IF obj.remaining_quota # loaded.remaining_quota
                              THEN obj.remaining_quota ELSE row.remaining_quota,
          status          |-> IF obj.status # loaded.status
                              THEN obj.status ELSE row.status,
          last_updated    |-> obj.last_updated]

\* a get_api_key that does not ask for remaining_quota > 0
PgGetApiKey_NoBudgetFilter(tbl) ==
    LET cand == {k \in DOMAIN tbl : tbl[k].status = "active"}
    IN  IF cand = {} THEN {None}
        ELSE {k \in cand : \A j \in cand : tbl[k].last_updated <= tbl[j].last_updated}

\* a get_api_key that does not ask for status = 'active'
PgGetApiKey_AnyStatus(tbl) ==
    LET cand == {k \in DOMAIN tbl : tbl[k].remaining_quota > 0}
    IN  IF cand = {} THEN {None}
        ELSE {k \in cand : \A j \in cand : tbl[k].last_updated <= tbl[j].last_updated}

\* PostgreSQL get_api_key(): active, remaining_quota > 0, ORDER BY
\* last_updated ASC, first().  The set of rows the query may return
\* (equal timestamps are ordered arbitrarily); {None} when no row matches.
PgGetApiKey(tbl) ==
    LET cand == {k \in DOMAIN tbl : tbl[k].status = "active" /\ tbl[k].remaining_quota > 0}
    IN  IF cand = {} THEN {None}
        ELSE {k \in cand : \A j \in cand : tbl[k].last_updated <= tbl[j].last_updated}

\* MongoDB get_api_key(): find_one({"status": "active"}), no sort
MgGetApiKey(tbl) ==
    LET cand == {k \in DOMAIN tbl : tbl[k].status = "active"}
    IN  IF cand = {} THEN {None} ELSE cand

\* MongoDB update_quota's update_one: $inc on the stored value, $set of the
\* status computed from the value read earlier
MgUpdate(row, read, quota_used, t) ==
    [remaining_quota |-> row.remaining_quota - quota_used,
     status          |-> GetStatus(read.remaining_quota - quota_used),
     last_updated    |-> t]

\* ------------------------------------------------------------ sessions
\* key is the key a call is about and, after get_api_key, the key it returned
\* (None when it returned None); ret is "True" / "False" after the other
\* calls; seq numbers the get_api_key calls of a run, so that two calls
\* returning the same key leave different records
Idle == [pc |-> "idle", op |-> "none", key |-> None, cost |-> 0, snap |-> NoRow,
         ret |-> "none", seq |-> 0]

Done(s, r) == [s EXCEPT !.pc = "idle", !.snap = NoRow, !.cost = 0, !.ret = r]

\* a write by a worker session to key k spoils the reset run's claim on k
Spoil(k) == [rs EXCEPT !.clean = @ \ {k}]

\* session.query(YouTubeApiKey).filter(api_key == k).first() of update_quota,
\* reset_quota, deactivate_key, activate_key; find_one of the Mongo update_quota
Load(w, op, k, c) ==
    /\ sess[w].pc = "idle"
    /\ k \in DOMAIN table
    /\ sess' = [sess EXCEPT ![w] = [pc |-> "loaded", op |-> op, key |-> k,
                                    cost |-> c, snap |-> table[k], ret |-> "none", seq |-> 0]]
    /\ UNCHANGED <<backend, table, now, expected, rs, rot, notPool>>

\* a call started by a worker of the pool runs; at most MaxOps of them
Started ==
    /\ ops < MaxOps
    /\ ops' = ops + 1

PgUpdateQuotaLoad(w) ==
    /\ Started
    /\ backend = "postgres"
    /\ \E k \in DOMAIN table, c \in 0..MaxCost : Load(w, "update_quota", k, c)

\* use_quota on the loaded object, then commit (or return False, no commit)
PgUpdateQuotaCommit(w) ==
    /\ backend = "postgres"
    /\ sess[w].pc = "loaded" /\ sess[w].op = "update_quota"
    /\ LET s == sess[w]
           r == use_quota(s.snap, s.cost, now)
       IN  IF r.ok
           THEN /\ table' = [table EXCEPT ![s.key] = Flush(@, s.snap, r.obj)]
                /\ expected' = [expected EXCEPT ![s.key] = @ - s.cost]
                /\ rs' = Spoil(s.key)
                /\ sess' = [sess EXCEPT ![w] = Done(s, "True")]
           ELSE /\ sess' = [sess EXCEPT ![w] = Done(s, "False")]
                /\ UNCHANGED <<table, expected, rs>>
    /\ UNCHANGED <<backend, now, ops, rot, notPool>>

PgResetQuotaLoad(w) ==
    /\ Started
    /\ backend = "postgres"
    /\ \E k \in DOMAIN table : Load(w, "reset_quota", k, NewQuota)

PgResetQuotaCommit(w) ==
    /\ backend = "postgres"
    /\ sess[w].pc = "loaded" /\ sess[w].op = "reset_quota"
    /\ LET s == sess[w]
           row == Flush(table[s.key], s.snap, reset_quota_obj(s.snap, s.cost, now))
       IN  /\ table' = [table EXCEPT ![s.key] = row]
           /\ expected' = [expected EXCEPT ![s.key] = row.remaining_quota]
           /\ rs' = Spoil(s.key)
           /\ sess' = [sess EXCEPT ![w] = Done(s, "True")]
    /\ UNCHANGED <<backend, now, ops, rot, notPool>>

PgSetStatusLoad(w) ==
    /\ Started
    /\ backend = "postgres"
    /\ \E k \in DOMAIN table, op \in {"deactivate_key", "activate_key"} : Load(w, op, k, 0)

PgDeactivateCommit(w) ==
    /\ backend = "postgres"
    /\ sess[w].pc = "loaded" /\ sess[w].op = "deactivate_key"
    /\ LET s == sess[w]
       IN  /\ table' = [table EXCEPT ![s.key] =
                            Flush(@, s.snap, set_status_obj(s.snap, "unactive", now))]
           /\ rs' = Spoil(s.key)
           /\ sess' = [sess EXCEPT ![w] = Done(s, "True")]
    /\ UNCHANGED <<backend, now, ops, expected, rot, notPool>>

PgActivateCommit(w) ==
    /\ backend = "postgres"
    /\ sess[w].pc = "loaded" /\ sess[w].op = "activate_key"
    /\ LET s == sess[w]
       IN  /\ table' = [table EXCEPT ![s.key] =
                            Flush(@, s.snap, set_status_obj(s.snap, "active", now))]
           /\ rs' = Spoil(s.key)
           /\ sess' = [sess EXCEPT ![w] = Done(s, "True")]
    /\ UNCHANGED <<backend, now, ops, expected, rot, notPool>>

\* get_api_key(): one SELECT / find_one; key is the api_key returned, or None
Select(w) ==
    /\ sess[w].pc = "idle"
    /\ \E k \in (IF backend = "postgres" THEN PgGetApiKey(table) ELSE MgGetApiKey(table)) :
          sess' = [sess EXCEPT ![w] = [Idle EXCEPT !.op = "get_api_key", !.key = k,
                                                   !.seq = ops + 1]]
    /\ UNCHANGED <<backend, table, now, expected, rs, rot, notPool>>

GetApiKey(w) ==
    /\ Started
    /\ Select(w)

MgUpdateQuotaFind(w) ==
    /\ Started
    /\ backend = "mongo"
    /\ \E k \in DOMAIN table, c \in 0..MaxCost : Load(w, "update_quota", k, c)

\* update_one; returns result.modified_count > 0
MgUpdateQuotaUpdate(w) ==
    /\ backend = "mongo"
    /\ sess[w].pc = "loaded" /\ sess[w].op = "update_quota"
    /\ LET s == sess[w]
           row == MgUpdate(table[s.key], s.snap, s.cost, now)
       IN  /\ table' = [table EXCEPT ![s.key] = row]
           /\ expected' = [expected EXCEPT ![s.key] =
                               IF row # table[s.key] THEN @ - s.cost ELSE @]
           /\ sess' = [sess EXCEPT ![w] =
                               Done(s, IF row # table[s.key] THEN "True" ELSE "False")]
    /\ UNCHANGED <<backend, now, ops, rs, rot, notPool>>

Tick ==
    /\ now < MaxClock
    /\ \E k \in DOMAIN table : table[k].last_updated = now
    /\ now' = now + 1
    /\ UNCHANGED <<backend, table, sess, ops, expected, rs, rot, notPool>>

\* ------------------------------------------- scripts/reset_quota.py run
RsIdle == [pc |-> "idle", todo |-> {}, key |-> None, snap |-> NoRow, clean |-> {}]

\* all_keys = api_manager.get_all_keys()
RsStart ==
    /\ backend = "postgres"
    /\ rs.pc = "idle"
    /\ rs' = [rs EXCEPT !.pc = "loop", !.todo = DOMAIN table]
    /\ UNCHANGED <<backend, table, now, sess, ops, expected, rot, notPool>>

\* for key in all_keys: api_manager.reset_quota(api_key, 10000) -- its SELECT
RsLoad ==
    /\ rs.pc = "loop"
    /\ \E k \in rs.todo :
          rs' = [rs EXCEPT !.pc = "loaded", !.key = k, !.snap = table[k],
                            !.clean = @ \cup {k}]
    /\ UNCHANGED <<backend, table, now, sess, ops, expected, rot, notPool>>

\* -- its key_obj.reset_quota(new_quota); session.commit()
RsCommit ==
    /\ rs.pc = "loaded"
    /\ LET row == Flush(table[rs.key], rs.snap, reset_quota_obj(rs.snap, NewQuota, now))
       IN  /\ table' = [table EXCEPT ![rs.key] = row]
           /\ expected' = [expected EXCEPT ![rs.key] = row.remaining_quota]
    /\ rs' = [rs EXCEPT !.pc = "loop", !.todo = @ \ {rs.key}, !.key = None, !.snap = NoRow]
    /\ UNCHANGED <<backend, now, sess, ops, rot, notPool>>

\* the loop is over: "Reset quota completed"
RsFinish ==
    /\ rs.pc = "loop" /\ rs.todo = {}
    /\ rs' = [rs EXCEPT !.pc = "done"]
    /\ UNCHANGED <<backend, table, now, sess, ops, expected, rot, notPool>>

\* ======================================================== entity store
\* A document is [id, country, subscriberCount]: country stands for the
\* fields whose name is one lower-case word (title, description, country,
\* status ...), subscriberCount for the camelCase ones (customUrl,
\* publishedAt, subscriberCount, videoCount, playlistId ...).  A field of
\* an incoming record is "absent" (key not in the dict), "null" (None) or
\* a value.
Ids         == {"a", "b"}
NoId        == "null"
CountryVals == {"absent", "null", "x"}
SubsVals    == {"x", "y"}
MaxBatch    == 2      \* records in one bulk call
MaxCalls    == 2      \* bulk calls in a run

Records ==
    [id : Ids, country : CountryVals, subscriberCount : SubsVals]
        \cup {[id |-> NoId, country |-> "x", subscriberCount |-> "x"]}

Batches == UNION {[1..n -> Records] : n \in 0..MaxBatch}

Variants == {"mongo_videos", "mongo_channels", "mongo_comments", "pg_channels"}

\* the {"$set": ...} document of the UpdateOne built for a record:
\* insert_many_videos copies the non-null values only, insert_many_channels
\* and insert_many_comments pass the record itself
SetDoc(v, rec) ==
    IF v = "mongo_videos"
    THEN [rec EXCEPT !.country = IF @ = "null" THEN "absent" ELSE @,
                     !.subscriberCount = IF @ = "null" THEN "absent" ELSE @]
    ELSE rec

\* position of the first document with this id, 0 when there is none
Find(coll, id) ==
    IF \E i \in 1..Len(coll) : coll[i].id = id
    THEN CHOOSE i \in 1..Len(coll) :
            coll[i].id = id /\ \A j \in 1..(i - 1) : coll[j].id # id
    ELSE 0

\* $set applied to a stored document: the fields given replace the stored
\* ones (a given null included), the others stay
MgSet(doc, set) ==
    [id              |-> doc.id,
     country         |-> IF set.country # "absent" THEN set.country ELSE doc.country,
     subscriberCount |-> IF set.subscriberCount # "absent"
                         THEN set.subscriberCount ELSE doc.subscriberCount]

\* UpdateOne({idField: id}, {"$set": set}, upsert=True) on the collection
MgUpdateOne(r, set) ==
    LET i == Find(r.coll, set.id)
    IN  IF i = 0
        THEN [coll |-> Append(r.coll, set), upserted |-> r.upserted + 1,
              modified |-> r.modified]
        ELSE LET doc == MgSet(r.coll[i], set)
             IN  [coll |-> [r.coll EXCEPT ![i] = doc], upserted |-> r.upserted,
                  modified |-> r.modified + (IF doc # r.coll[i] THEN 1 ELSE 0)]

\* the operations list: one UpdateOne per record that has an id
Operations(v, batch) ==
    SelectSeq([i \in 1..Len(batch) |-> SetDoc(v, batch[i])], LAMBDA d : d.id # NoId)

RECURSIVE MgApply(_, _, _)
\* the operations applied in the order `order` (a sequence of positions)
MgApply(r, opsList, order) ==
    IF order = <<>> THEN r
    ELSE MgApply(MgUpdateOne(r, opsList[Head(order)]), opsList, Tail(order))

Orders(n) == {o \in [1..n -> 1..n] : \A i, j \in 1..n : i # j => o[i] # o[j]}

\* collection.bulk_write(operations, ordered=False): the server applies
\* the operations in an order of its choosing; the possible outcomes
MgBulkWrite(coll, opsList) ==
    {MgApply([coll |-> coll, upserted |-> 0, modified |-> 0], opsList, o) :
        o \in Orders(Len(opsList))}

\* hasattr(existing_channel, key.lower()): the mapped class has snake_case
\* attributes (channel_id, custom_url, subscriber_count ...), so the
\* lower-cased key names an attribute only when the key is one word
HasAttr(field) == field = "country"

\* the update branch of PostgresDatabase.insert_many_channels
PgSetAttrs(row, rec) ==
    [id              |-> row.id,
     country         |-> IF HasAttr("country") /\ rec.country \notin {"absent", "null"}
                         THEN rec.country ELSE row.country,
     subscriberCount |-> IF HasAttr("subscriberCount")
                            /\ rec.subscriberCount \notin {"absent", "null"}
                         THEN rec.subscriberCount ELSE row.subscriberCount]

\* the insert branch: Channel(channel_id=..., country=data.get("country"),
\* subscriber_count=data.get("subscriberCount", 0), ...)
PgNewRow(rec) ==
    [id              |-> rec.id,
     country         |-> IF rec.country = "absent" THEN "null" ELSE rec.country,
     subscriberCount |-> IF rec.subscriberCount = "absent"
                         THEN "0" ELSE rec.subscriberCount]

RECURSIVE PgLoop(_, _)
\* the for loop: r = [rows (committed rows, updated in place), pending
\* (session.add, not visible to the queries: autoflush=False), new, updated]
PgLoop(r, batch) ==
    IF batch = <<>> THEN r
    ELSE LET rec == Head(batch)
             i   == Find(r.rows, rec.id)
         IN  IF rec.id = NoId THEN PgLoop(r, Tail(batch))
             ELSE IF i # 0
             THEN PgLoop([r EXCEPT !.rows[i] = PgSetAttrs(@, rec),
                                   !.updated = @ + 1], Tail(batch))
             ELSE PgLoop([r EXCEPT !.pending = Append(@, PgNewRow(rec)),
                                   !.new = @ + 1], Tail(batch))

\* the outcome of PostgresDatabase.insert_many_channels: session.commit()
\* raises IntegrityError (channel_id is unique) when two pending rows have
\* the same id; the except branch rolls back and re-raises, and every retry
\* of the decorator ends the same way
PgInsertMany(tbl, batch) ==
    LET r == PgLoop([rows |-> tbl, pending |-> <<>>, new |-> 0, updated |-> 0], batch)
        clash == \E i, j \in 1..Len(r.pending) : i # j /\ r.pending[i].id = r.pending[j].id
    IN  IF clash
        THEN [coll |-> tbl, inserted |-> 0, updated |-> 0, raised |-> TRUE]
        ELSE [coll |-> r.rows \o r.pending, inserted |-> r.new,
              updated |-> r.updated, raised |-> FALSE]

\* the outcomes of Database.insert_many_videos / _channels / _comments
MgInsertMany(v, coll, batch) ==
    LET opsList == Operations(v, batch)
    IN  IF opsList = <<>>
        THEN {[coll |-> coll, inserted |-> 0, updated |-> 0, raised |-> FALSE]}
        ELSE {[coll |-> r.coll, inserted |-> r.upserted, updated |-> r.modified,
               raised |-> FALSE] : r \in MgBulkWrite(coll, opsList)}

InsertMany(v, coll, batch) ==
    IF v = "pg_channels" THEN {PgInsertMany(coll, batch)} ELSE MgInsertMany(v, coll, batch)

\* one call of the bulk upsert with some batch
Upsert ==
    /\ call.n < MaxCalls
    /\ \E batch \in Batches : \E r \in InsertMany(variant, store, batch) :
          /\ store' = r.coll
          /\ call' = [n |-> call.n + 1, batch |-> batch, inserted |-> r.inserted,
                      updated |-> r.updated, raised |-> r.raised]
    /\ UNCHANGED <<variant, notStore>>

NoCall == [n |-> 0, batch |-> <<>>, inserted |-> 0, updated |-> 0, raised |-> FALSE]

NoStatusOp == [op |-> "none", ids |-> {}, updated_count |-> 0]

EntIdle ==
    /\ ekind = "mongo_channels"
    /\ ent = [i \in Ids |-> "none"]
    /\ elast = NoStatusOp

\* a worker that has not been handed the keyword yet
KwWorkerIdle == [pc |-> "idle", doc |-> "none", creds |-> "none", found |-> 0, error |-> "none"]

KwIdle ==
    /\ kpath = "pg_service"
    /\ kstatus = "absent"
    /\ kw = [w \in Sessions |-> KwWorkerIdle]

\* no call of a wrapped operation made yet
NoRetry == [pc |-> "idle", attempt |-> 0, result |-> "none", exc |-> "none", slept |-> 0]

RetryIdle ==
    /\ rkind = "mongo"
    /\ rt = NoRetry
    /\ rlog = <<>>

\* a service at the start of its run
NewRun(service, num_threads) ==
    [service |-> service, num_threads |-> num_threads, pc |-> "fetch", fetched |-> 0,
     skip |-> 0, collected |-> 0, total_processed |-> 0, total_children |-> 0, errors |-> <<>>]

WpIdle ==
    /\ wp = NewRun("video", 1)
    /\ futures = <<>>
    /\ rqueue = <<>>

\* a message as the producer wrote it: whether it decodes, its action, and
\* whether its body has the id and the alternate key
Message(json, action, id, alt) == [json |-> json, action |-> action, id |-> id, alt |-> alt]

\* a consumer with its message waiting in the queue; later is a message that
\* arrives in the queue behind it, passes counts modulo 2 the passes of the
\* consuming loop in which the broker had nothing to hand out
NewConsumer(kind, msg) ==
    [kind |-> kind, msg |-> msg, state |-> "ready", deliveries |-> 0, crawls |-> 0,
     crawl |-> "none", outcome |-> "none", signal |-> "none", later |-> "ready",
     passes |-> 0]

MqIdle == mq = NewConsumer("rabbitmq", Message("ok", "CHANNEL_INFO", "yes", "no"))

\* the numbers of a set as a list, smallest first
RECURSIVE Ascending(_)
Ascending(S) ==
    IF S = {} THEN <<>>
    ELSE LET m == CHOOSE x \in S : \A y \in S : x <= y
         IN  <<m>> \o Ascending(S \ {m})

\* the credentials the API client rotates among
ApiKeys == {1, 2}

\* YouTubeAPI.__init__ and the locals a call starts with: the keys loaded from
\* the pool, the index of the key in use, the key the service was built with
\* (None when there was no key). total is the number of pages of the result
\* set (or of id batches), cap the number of pages after which the result cap
\* is reached, fault the remote's behaviour besides quota. rotated_at is the
\* cursor at the last budget-exceeded failure that a rotation survived (-1:
\* none); it is a history field, no code reads it. call_count counts the
\* search requests issued and is kept modulo CallWrap
NewApi(stage, method, keys, total, cap, fault) ==
    [stage |-> stage, method |-> method, api_keys |-> keys, current_key_index |-> 0,
     youtube |-> IF keys = <<>> THEN None ELSE keys[1],
     used_api_key |-> None, next_page_token |-> 0, pages |-> <<>>,
     i |-> 0, done |-> {}, total |-> total, cap |-> cap, fault |-> fault,
     pc |-> IF stage = "search" THEN "start" ELSE "loop",
     call_count |-> 0, last |-> "none", exit |-> "none", rotated_at |-> -1]

ApiIdle ==
    /\ apool = [k \in ApiKeys |-> Row(0, "unactive", 0)]
    /\ remote = [k \in ApiKeys |-> 0]
    /\ api = NewApi("search", "search_channel_by_keyword", <<>>, 1, 1, "none")
    /\ ledger = [k \in ApiKeys |-> [charged |-> 0, spent |-> 0]]

\* the channels / videos one stage run is handed
StageIds == {1, 2}

\* crawl_videos_from_channels before its loop: playlist_ids lists the channels
\* that have a playlistId; chan is the channels collection, stored the number
\* of videos of each channel in the videos collection
NewExpand(chan) ==
    [pc |-> "list", i |-> 1, chan |-> chan,
     playlist_ids |-> Ascending({c \in DOMAIN chan : chan[c].playlistId = "yes"}),
     videos |-> 0, crawled_playlist_ids |-> {},
     stored |-> [c \in DOMAIN chan |-> 0]]

\* crawl_comments_from_videos before its loop, as defined in module mod
NewLeafFetch(mod) ==
    [pc |-> "get", mod |-> mod, i |-> 1,
     status |-> [v \in StageIds |-> "crawled_video"],
     fetched |-> [v \in StageIds |-> 0], stored |-> [v \in StageIds |-> 0],
     batch_comments |-> 0, batch_crawled_videos |-> {}, db_result |-> "unbound",
     comment_result |-> "unbound", result_update_status |-> "unbound"]

StageIdle ==
    /\ ex = NewExpand([c \in StageIds |->
                         [status |-> "crawled_channel", playlistId |-> "yes", kids |-> 0]])
    /\ lf = NewLeafFetch("crawler")

\* the threads generate_and_crawl starts (max_workers of them)
KbThreads == {1, 2}

\* a thread and the batch submitted to it; log lists the keywords it went
\* through with what became of each
NewBatchThread(pc, keywords) ==
    [pc |-> pc, keywords |-> keywords, idx |-> 1, log |-> <<>>, db |-> "none"]

KbIdle == kb = [t \in KbThreads |-> NewBatchThread("not submitted", <<>>)]

\* the records of the collection, in the order find() returns them, and the
\* runs that may work on it at the same time
MaxBacklog == 3
BlIds == 1..MaxBacklog
BlRuns == {1, 2}

\* a run before its first query; waits says whether it collects a page before
\* it queries the next (crawl_all_comments and the loops of crawler_auto) or
\* not (crawl_all_videos)
NewBacklogRun(pc, waits) ==
    [pc |-> pc, waits |-> waits, skip |-> 0, pending |-> {}, picked |-> {}]

BlIdle ==
    bl = [status |-> [id \in BlIds |-> "advanced"], initial |-> {}, batch_size |-> 1,
          run |-> [r \in BlRuns |-> NewBacklogRun("not started", TRUE)]]

FrIdle ==
    fr = [pc |-> "idle", table |-> [k \in AllKeys |-> NoRow], now |-> 0, key |-> None,
          hist |-> <<>>]

\* the workers that insert a record and the ids they insert
SiWorkers == {1, 2, 3}
SiIds == {1, 2}

\* a call of insert_channel / insert_video for id, before its exists-check
NewInsert(pc, id) == [pc |-> pc, id |-> id, attempt |-> 0, duplicate |-> FALSE]

SiIdle ==
    si = [docs |-> [id \in SiIds |-> 0], w |-> [w \in SiWorkers |-> NewInsert("idle", 1)]]

StoreIdle ==
    /\ variant = "mongo_videos"
    /\ store = <<>>
    /\ call = NoCall

PoolIdle ==
    /\ backend = "postgres"
    /\ table = [k \in {1} |-> NoRow]
    /\ now = 0
    /\ sess = [w \in Sessions |-> Idle]
    /\ ops = 0
    /\ expected = [k \in {1} |-> 0]
    /\ rs = [pc |-> "idle", todo |-> {}, key |-> None, snap |-> NoRow, clean |-> {}]
    /\ rot = [budget |-> 0, cost |-> 0]

InitStore ==
    /\ variant \in Variants
    /\ store = <<>>
    /\ call = NoCall
    /\ PoolIdle
    /\ EntIdle
    /\ KwIdle
    /\ RetryIdle
    /\ WpIdle
    /\ MqIdle
    /\ ApiIdle
    /\ StageIdle
    /\ KbIdle
    /\ BlIdle
    /\ FrIdle
    /\ SiIdle

NextStore == Upsert

SpecStore == InitStore /\ [][NextStore]_vars

\* --------------------------------------------------- pool specification
PoolKeys == {1, 2}

\* rows as add_api_key leaves them: PostgreSQL stores status 'active'
\* whatever the quota, MongoDB stores _get_status(quota)
InitRow(b, q, t) == Row(q, IF b = "postgres" THEN "active" ELSE GetStatus(q), t)

NoRot == [budget |-> 0, cost |-> 0]

InitPool ==
    /\ backend \in Backends
    /\ \E q \in [PoolKeys -> 0..MaxQuota] :
          /\ table = [k \in PoolKeys |-> InitRow(backend, q[k], 0)]
          /\ expected = q
    /\ now = 0
    /\ sess = [w \in Sessions |-> Idle]
    /\ ops = 0
    /\ rs = RsIdle
    /\ rot = NoRot
    /\ StoreIdle
    /\ EntIdle
    /\ KwIdle
    /\ RetryIdle
    /\ WpIdle
    /\ MqIdle
    /\ ApiIdle
    /\ StageIdle
    /\ KbIdle
    /\ BlIdle
    /\ FrIdle
    /\ SiIdle

\* two workers calling the manager of either backend, in any interleaving
NextPool ==
    \/ \E w \in Sessions : PgUpdateQuotaLoad(w)
    \/ \E w \in Sessions : PgUpdateQuotaCommit(w)
    \/ \E w \in Sessions : PgResetQuotaLoad(w)
    \/ \E w \in Sessions : PgResetQuotaCommit(w)
    \/ \E w \in Sessions : PgSetStatusLoad(w)
    \/ \E w \in Sessions : PgDeactivateCommit(w)
    \/ \E w \in Sessions : PgActivateCommit(w)
    \/ \E w \in Sessions : GetApiKey(w)
    \/ \E w \in Sessions : MgUpdateQuotaFind(w)
    \/ \E w \in Sessions : MgUpdateQuotaUpdate(w)
    \/ Tick

SpecPool == InitPool /\ [][NextPool]_vars

\* --------------------------- keys added with a budget, charged and reset
\* every key was added by add_api_key with a positive quota; the workers
\* call update_quota and reset_quota only
InitCharges ==
    /\ backend \in Backends
    /\ \E q \in [PoolKeys -> 1..MaxQuota] :
          /\ table = [k \in PoolKeys |-> InitRow(backend, q[k], 0)]
          /\ expected = q
    /\ now = 0
    /\ sess = [w \in Sessions |-> Idle]
    /\ ops = 0
    /\ rs = RsIdle
    /\ rot = NoRot
    /\ StoreIdle
    /\ EntIdle
    /\ KwIdle
    /\ RetryIdle
    /\ WpIdle
    /\ MqIdle
    /\ ApiIdle
    /\ StageIdle
    /\ KbIdle
    /\ BlIdle
    /\ FrIdle
    /\ SiIdle

NextCharges ==
    \/ \E w \in Sessions : PgUpdateQuotaLoad(w)
    \/ \E w \in Sessions : PgUpdateQuotaCommit(w)
    \/ \E w \in Sessions : PgResetQuotaLoad(w)
    \/ \E w \in Sessions : PgResetQuotaCommit(w)
    \/ \E w \in Sessions : MgUpdateQuotaFind(w)
    \/ \E w \in Sessions : MgUpdateQuotaUpdate(w)
    \/ Tick

SpecCharges == InitCharges /\ [][NextCharges]_vars

\* ------------------------------------- the reset script beside a worker
InitReset ==
    /\ backend = "postgres"
    /\ \E q \in [PoolKeys -> 0..MaxQuota] :
          /\ table = [k \in PoolKeys |-> InitRow(backend, q[k], 0)]
          /\ expected = q
    /\ now = 0
    /\ sess = [w \in Sessions |-> Idle]
    /\ ops = 0
    /\ rs = RsIdle
    /\ rot = NoRot
    /\ StoreIdle
    /\ EntIdle
    /\ KwIdle
    /\ RetryIdle
    /\ WpIdle
    /\ MqIdle
    /\ ApiIdle
    /\ StageIdle
    /\ KbIdle
    /\ BlIdle
    /\ FrIdle
    /\ SiIdle

\* scripts/reset_quota.py runs once while worker w1 charges, deactivates
\* and activates keys
NextReset ==
    \/ PgUpdateQuotaLoad("w1")
    \/ PgUpdateQuotaCommit("w1")
    \/ PgSetStatusLoad("w1")
    \/ PgDeactivateCommit("w1")
    \/ PgActivateCommit("w1")
    \/ Tick
    \/ RsStart
    \/ RsLoad
    \/ RsCommit
    \/ RsFinish

SpecReset == InitReset /\ [][NextReset]_vars

\* ------------------------------------------------ the rotation scenario
\* Three keys with budgets [0, 0, B]; one client repeats get_api_key()
\* followed by update_quota(key, c) until get_api_key() returns None.
InitRotation ==
    /\ backend = "postgres"
    /\ \E B \in 1..RotBudget, c \in 1..RotBudget, t \in [AllKeys -> 0..1] :
          /\ B % c = 0
          /\ rot = [budget |-> B, cost |-> c]
          /\ table = [k \in AllKeys |-> InitRow(backend, IF k = 3 THEN B ELSE 0, t[k])]
          /\ expected = [k \in AllKeys |-> IF k = 3 THEN B ELSE 0]
    /\ now = 1
    /\ sess = [w \in Sessions |-> Idle]
    /\ ops = 0
    /\ rs = RsIdle
    /\ StoreIdle
    /\ EntIdle
    /\ KwIdle
    /\ RetryIdle
    /\ WpIdle
    /\ MqIdle
    /\ ApiIdle
    /\ StageIdle
    /\ KbIdle
    /\ BlIdle
    /\ FrIdle
    /\ SiIdle

RotAcquire ==
    /\ sess["w1"].op # "get_api_key"
    /\ Select("w1")
    /\ UNCHANGED ops

RotCharge ==
    /\ sess["w1"].op = "get_api_key"
    /\ sess["w1"].key # None
    /\ Load("w1", "update_quota", sess["w1"].key, rot.cost)
    /\ UNCHANGED ops

RotCommit == PgUpdateQuotaCommit("w1")

NextRotation ==
    \/ RotAcquire
    \/ RotCharge
    \/ RotCommit
    \/ Tick

SpecRotation == InitRotation /\ [][NextRotation]_vars

\* ===================================================== entity statuses
\* STATUS_ENTITY, in the order of the pipeline's stages
Statuses == <<"to_crawl", "crawled_channel", "crawled_video", "crawled_comment">>

\* position of a status in the pipeline; 0 for a value that is no status
\* (field missing, null)
Rank(st) ==
    IF \E i \in 1..Len(Statuses) : Statuses[i] = st
    THEN CHOOSE i \in 1..Len(Statuses) : Statuses[i] = st
    ELSE 0

EntKinds == {"mongo_channels", "pg_channels", "mongo_videos"}

\* the status an incoming record carries: Channel.from_api gives
\* crawled_channel, Video.from_playlist_item to_crawl, Video.from_api
\* crawled_video; a search hit carries none
GivenStatus(k) ==
    IF k = "mongo_videos"
    THEN {"absent", "to_crawl", "crawled_video"}
    ELSE {"absent", "to_crawl", "crawled_channel"}

\* the status stored after the bulk upsert of a record with this status:
\* Database.insert_many_channels $sets the record as given,
\* Database.insert_many_videos the non-null fields,
\* PostgresDatabase.insert_many_channels setattr's the non-null fields of a
\* stored row and creates a new row with data.get("status", "to_crawl")
UpsertedStatus(k, stored, given) ==
    IF k = "mongo_channels"
    THEN (IF given = "absent" THEN (IF stored = "none" THEN "absent" ELSE stored) ELSE given)
    ELSE IF k = "mongo_videos"
    THEN (IF given \in {"absent", "null"}
          THEN (IF stored = "none" THEN "absent" ELSE stored) ELSE given)
    ELSE IF stored = "none"
         THEN (IF given = "absent" THEN "to_crawl" ELSE given)
         ELSE (IF given \in {"absent", "null"} THEN stored ELSE given)

\* insert_many_channels / insert_many_videos of records with these ids
UpsertEntities ==
    /\ \E ids \in (SUBSET Ids) \ {{}} : \E given \in [ids -> GivenStatus(ekind)] :
          /\ ent' = [i \in Ids |-> IF i \in ids THEN UpsertedStatus(ekind, ent[i], given[i])
                                                ELSE ent[i]]
          /\ elast' = [op |-> "upsert", ids |-> ids, updated_count |-> 0]
    /\ UNCHANGED <<ekind, notEnt>>

\* the status update_channels_status_by_playlist_ids /
\* update_videos_status_by_video_ids writes
AdvanceTo(k) == IF k = "mongo_videos" THEN "crawled_comment" ELSE "crawled_video"

\* update_channels_status_by_playlist_ids(ids) /
\* update_videos_status_by_video_ids(ids): every stored document with one of
\* the ids gets {"$set": {"status": ...}}; updated_count is modified_count
AdvanceStatus ==
    /\ ekind # "pg_channels"
    /\ \E ids \in (SUBSET Ids) \ {{}} :
          LET found == {i \in ids : ent[i] # "none"}
          IN  /\ ent' = [i \in Ids |-> IF i \in found THEN AdvanceTo(ekind) ELSE ent[i]]
              /\ elast' = [op |-> "advance", ids |-> ids,
                           updated_count |->
                               Cardinality({i \in found : ent[i] # AdvanceTo(ekind)})]
    /\ UNCHANGED <<ekind, notEnt>>

InitStatus ==
    /\ ekind \in EntKinds
    /\ ent = [i \in Ids |-> "none"]
    /\ elast = NoStatusOp
    /\ PoolIdle
    /\ StoreIdle
    /\ KwIdle
    /\ RetryIdle
    /\ WpIdle
    /\ MqIdle
    /\ ApiIdle
    /\ StageIdle
    /\ KbIdle
    /\ BlIdle
    /\ FrIdle
    /\ SiIdle

NextStatus ==
    \/ UpsertEntities
    \/ AdvanceStatus

SpecStatus == InitStatus /\ [][NextStatus]_vars

\* ==================================================== keyword dispatch
\* The three functions that take a keyword through its unit of work:
\*   process_keyword_from_db (PostgreSQL, KeywordManager),
\*   process_keyword_batch and crawl_video_in_channel_by_many_keywords
\*   (MongoDB, Database).
\* Each reads the keyword's document, and in a second store call writes
\* "crawling"; other workers may run between the two.
KwPaths == {"pg_service", "mongo_batch", "mongo_many"}

KwStatuses == {"absent", "to_crawl", "crawling", "crawled", "error"}

MaxFound == 1      \* channels a search finds are 0..MaxFound

\* KeywordManager.update_keyword(keyword, status=...): the stored status
\* after the call
update_keyword(stored, status) == IF stored = "absent" THEN stored ELSE status

\* Database.update_keyword_status(keyword, status): the stored status after
\* the call; a status outside the list returns False before any write
update_keyword_status(stored, status) ==
    IF status \notin {"to crawl", "crawling", "crawled"} THEN stored
    ELSE IF stored = "absent" THEN stored ELSE status

UpdateKeyword(path, stored, status) ==
    IF path = "pg_service" THEN update_keyword(stored, status)
    ELSE update_keyword_status(stored, status)

\* YouTubeAPI.search_channel_by_keyword: the dict it returns.  When no key
\* is left (_switch_api_key returns False) the search stops and returns the
\* channels found so far; nothing is raised.
search_channel_by_keyword(creds, found) ==
    [keys |-> {"channels", "videos", "api_key", "used_quota"}, channels |-> found]

\* crawl_channels_by_keyword (crawler.py, crawler_to_kafka.py): reads
\* search_result["quota_usage"] right after the search
crawl_channels_by_keyword(creds, found) ==
    LET search_result == search_channel_by_keyword(creds, found)
    IN  IF "quota_usage" \in search_result.keys
        THEN [raised |-> "none", detailed_channels |-> search_result.channels]
        ELSE [raised |-> "KeyError", detailed_channels |-> 0]

\* crawl_info_from_keyword: every exception becomes a result without success
crawl_info_from_keyword(creds, found) ==
    LET channel_result == crawl_channels_by_keyword(creds, found)
    IN  IF channel_result.raised # "none"
        THEN [success |-> FALSE, error |-> channel_result.raised]
        ELSE IF channel_result.detailed_channels > 0
        THEN [success |-> TRUE, error |-> "none"]
        ELSE [success |-> FALSE, error |-> "No channels found"]

\* crawl_video_in_channel_by_keyword: returns a dict of counts, or lets the
\* exception of a stage through
crawl_video_in_channel_by_keyword(creds, found) ==
    crawl_channels_by_keyword(creds, found).raised

\* get_keyword_by_keyword at the start of the unit of work
KwGet(w) ==
    /\ kw[w].pc = "idle"
    /\ kw' = [kw EXCEPT ![w].pc = "got", ![w].doc = kstatus]
    /\ UNCHANGED <<kpath, kstatus, notKw>>

\* the branch on the status read: "to_crawl" writes "crawling" and goes on
\* to the crawl, anything else ends the unit of work
KwDispatch(w) ==
    /\ kw[w].pc = "got"
    /\ IF kw[w].doc = "to_crawl"
       THEN /\ kstatus' = UpdateKeyword(kpath, kstatus, "crawling")
            /\ kw' = [kw EXCEPT ![w].pc = "crawling"]
       ELSE /\ kstatus' = kstatus
            /\ kw' = [kw EXCEPT ![w].pc = "returned"]
    /\ UNCHANGED <<kpath, notKw>>

\* process_keyword_from_db after the write of "crawling"
PgServiceCrawl(w, creds, found) ==
    LET crawl_result == crawl_info_from_keyword(creds, found)
    IN  /\ kstatus' = update_keyword(kstatus, IF crawl_result.success THEN "crawled" ELSE "error")
        /\ kw' = [kw EXCEPT ![w].pc = "returned", ![w].creds = creds, ![w].found = found,
                            ![w].error = crawl_result.error]

\* process_keyword_batch after the write of "crawling"
MgBatchCrawl(w, creds, found) ==
    LET raised == crawl_video_in_channel_by_keyword(creds, found)
    IN  /\ kstatus' = update_keyword_status(kstatus, IF raised = "none" THEN "crawled" ELSE "error")
        /\ kw' = [kw EXCEPT ![w].pc = "returned", ![w].creds = creds, ![w].found = found,
                            ![w].error = raised]

\* crawl_video_in_channel_by_many_keywords after the write of "crawling":
\* no handler, the exception leaves the function
MgManyCrawl(w, creds, found) ==
    LET raised == crawl_video_in_channel_by_keyword(creds, found)
    IN  /\ kstatus' = IF raised = "none" THEN update_keyword_status(kstatus, "crawled") ELSE kstatus
        /\ kw' = [kw EXCEPT ![w].pc = IF raised = "none" THEN "returned" ELSE "raised",
                            ![w].creds = creds, ![w].found = found, ![w].error = raised]

\* the crawl and the status written at its end
KwCrawl(w) ==
    /\ kw[w].pc = "crawling"
    /\ \E creds \in {"available", "exhausted"}, found \in 0..MaxFound :
          IF kpath = "pg_service" THEN PgServiceCrawl(w, creds, found)
          ELSE IF kpath = "mongo_batch" THEN MgBatchCrawl(w, creds, found)
          ELSE MgManyCrawl(w, creds, found)
    /\ UNCHANGED <<kpath, notKw>>

InitKeyword ==
    /\ kpath \in KwPaths
    /\ kstatus \in KwStatuses
    /\ kw = [w \in Sessions |-> KwWorkerIdle]
    /\ PoolIdle
    /\ StoreIdle
    /\ EntIdle
    /\ RetryIdle
    /\ WpIdle
    /\ MqIdle
    /\ ApiIdle
    /\ StageIdle
    /\ KbIdle
    /\ BlIdle
    /\ FrIdle
    /\ SiIdle

NextKeyword ==
    \E w \in Sessions :
        \/ KwGet(w)
        \/ KwDispatch(w)
        \/ KwCrawl(w)

SpecKeyword == InitKeyword /\ [][NextKeyword]_vars

\* ======================================================== retry wrapper
\* retry_mongodb_operation / retry_postgres_operation, as every store method
\* uses them: with the default arguments
max_retries == 3

delay == 1

\* what one invocation of the wrapped operation can do: return, or raise an
\* exception of one of these classes
Outcomes(k) ==
    IF k = "mongo"
    THEN {"ok", "ConnectionFailure", "ServerSelectionTimeoutError", "OperationFailure",
          "WriteError", "DuplicateKeyError", "KeyError"}
    ELSE {"ok", "OperationalError", "IntegrityError", "DataError", "KeyError"}

\* the classes an exception is an instance of (pymongo.errors,
\* sqlalchemy.exc, builtins)
Mro(e) ==
    CASE e = "ConnectionFailure" -> {"ConnectionFailure", "PyMongoError"}
      [] e = "ServerSelectionTimeoutError" ->
             {"ServerSelectionTimeoutError", "AutoReconnect", "ConnectionFailure", "PyMongoError"}
      [] e = "OperationFailure" -> {"OperationFailure", "PyMongoError"}
      [] e = "WriteError" -> {"WriteError", "OperationFailure", "PyMongoError"}
      [] e = "DuplicateKeyError" ->
             {"DuplicateKeyError", "WriteError", "OperationFailure", "PyMongoError"}
      [] e = "OperationalError" ->
             {"OperationalError", "DatabaseError", "DBAPIError", "StatementError", "SQLAlchemyError"}
      [] e = "IntegrityError" ->
             {"IntegrityError", "DatabaseError", "DBAPIError", "StatementError", "SQLAlchemyError"}
      [] e = "DataError" ->
             {"DataError", "DatabaseError", "DBAPIError", "StatementError", "SQLAlchemyError"}
      [] e = "KeyError" -> {"KeyError", "LookupError"}
      [] OTHER -> {}

\* the classes named in the except clause
ExceptClasses(k) ==
    IF k = "mongo"
    THEN {"ConnectionFailure", "ServerSelectionTimeoutError", "OperationFailure"}
    ELSE {"SQLAlchemyError", "IntegrityError"}

\* the except clause takes this exception
Caught(k, e) == Mro(e) \cap ExceptClasses(k) # {}

\* an except clause that goes on to the next attempt whatever the attempt
AfterCaught_AlwaysContinue(attempt) == "continue"

\* the body of the except clause: sleep and continue before the last
\* attempt, raise last_exception on the last
AfterCaught(attempt) == IF attempt < max_retries - 1 THEN "continue" ELSE "raise"

\* a wrapped store method is called
RetryCall ==
    /\ rt.pc = "idle"
    /\ rt' = [rt EXCEPT !.pc = "loop"]
    /\ UNCHANGED <<rkind, rlog, notRetry>>

\* one pass of "for attempt in range(max_retries)": the operation is invoked;
\* its result is returned, or its exception is caught (slept on and retried,
\* or raised on the last attempt), or its exception is not caught and leaves
\* the wrapper.  When the loop runs out the wrapper returns None.
RetryInvoke ==
    /\ rt.pc = "loop"
    /\ \E o \in Outcomes(rkind) :
          /\ rlog' = Append(rlog, o)
          /\ rt' = IF o = "ok"
                   THEN [rt EXCEPT !.pc = "returned", !.result = "value"]
                   ELSE IF ~Caught(rkind, o)
                   THEN [rt EXCEPT !.pc = "raised", !.exc = o]
                   ELSE IF AfterCaught(rt.attempt) = "raise"
                   THEN [rt EXCEPT !.pc = "raised", !.exc = o]
                   ELSE IF rt.attempt + 1 < max_retries
                   THEN [rt EXCEPT !.attempt = @ + 1, !.slept = @ + delay * (rt.attempt + 1)]
                   ELSE [rt EXCEPT !.pc = "returned", !.result = "None",
                                   !.attempt = @ + 1, !.slept = @ + delay * (rt.attempt + 1)]
    /\ UNCHANGED <<rkind, notRetry>>

InitRetry ==
    /\ rkind \in {"mongo", "postgres"}
    /\ rt = NoRetry
    /\ rlog = <<>>
    /\ PoolIdle
    /\ StoreIdle
    /\ EntIdle
    /\ KwIdle
    /\ WpIdle
    /\ MqIdle
    /\ ApiIdle
    /\ StageIdle
    /\ KbIdle
    /\ BlIdle
    /\ FrIdle
    /\ SiIdle

NextRetry ==
    \/ RetryCall
    \/ RetryInvoke

SpecRetry == InitRetry /\ [][NextRetry]_vars

\* ========================================================== worker pool
\* VideoCrawlerService.crawl_all_videos, CommentCrawlerService.crawl_all_comments
\* and generate_and_crawl: a list of items is cut into at most num_threads
\* partitions, each submitted to a ThreadPoolExecutor; the services' workers
\* put one result per partition on result_queue and the service sums them.
MaxItems == 3      \* a fetch returns 0..MaxItems items
MaxThreads == 2    \* num_threads is 1..MaxThreads
MaxFetches == 2    \* non-empty fetches in a run
MaxChildren == 1   \* videos/comments a partition finds are 0..MaxChildren

Services == {"video", "comment", "keywords"}

\* a batch_size without the share of the remainder
BatchSize_NoRemainder(i, per_thread, remaining) == per_thread

\* batch_size = per_thread + (1 if i < remaining else 0)
BatchSize(i, per_thread, remaining) == per_thread + (IF i < remaining THEN 1 ELSE 0)

Min(a, b) == IF a < b THEN a ELSE b

\* items[start_idx:end_idx]
Slice(items, start_idx, end_idx) == SubSeq(items, start_idx + 1, Min(end_idx, Len(items)))

\* the loop "for i in range(num_threads)" from pass i on: the partitions it
\* submits
RECURSIVE Distribute(_, _, _, _)
Distribute(i, start_idx, items, num_threads) ==
    IF i >= num_threads THEN <<>>
    ELSE LET total == Len(items)
             batch_size == BatchSize(i, total \div num_threads, total % num_threads)
             end_idx == start_idx + batch_size
         IN  IF start_idx < total
             THEN <<Slice(items, start_idx, end_idx)>> \o Distribute(i + 1, end_idx, items, num_threads)
             ELSE Distribute(i + 1, start_idx, items, num_threads)

\* executor.submit(process_batch, batch) for every partition
Submit(batches) ==
    [p \in 1..Len(batches) |->
        [batch |-> batches[p], state |-> "pending", children |-> 0, error |-> "none"]]

\* a process_batch that reports no error when the unit of work raises
BatchResult_NoError(f, batch, outcome) ==
    [processed |-> Len(batch), children |-> IF outcome < 0 THEN 0 ELSE outcome, error |-> 0]

\* the result process_batch puts on result_queue: the count the unit of work
\* returned (outcome >= 0), or the error of the unit of work that raised
\* (outcome < 0); the error message names the thread, here the partition
BatchResult(f, batch, outcome) ==
    [processed |-> Len(batch),
     children |-> IF outcome < 0 THEN 0 ELSE outcome,
     error |-> IF outcome < 0 THEN f ELSE 0]

\* a summing that keeps the last result only
AddResult_Overwrite(run, result) ==
    [run EXCEPT !.total_processed = result.processed,
                !.total_children = result.children,
                !.errors = IF result.error # 0 THEN Append(@, result.error) ELSE @]

\* the body of "for future in as_completed(futures)"
AddResult(run, result) ==
    [run EXCEPT !.total_processed = @ + result.processed,
                !.total_children = @ + result.children,
                !.errors = IF result.error # 0 THEN Append(@, result.error) ELSE @]

\* a process_batch whose except clause logs the error and puts nothing
PutResult_NotOnError(queue, result) ==
    IF result.error # 0 THEN queue ELSE Append(queue, result)

\* self.result_queue.put(...): process_batch reaches exactly one of its three
\* puts, after the unit of work returned a result, returned nothing, or raised
PutResult(queue, result) == Append(queue, result)

\* the futures that have completed
Completed == {f \in 1..Len(futures) : futures[f].state = "done"}

\* one pass of the fetch: the services query the next page of entities and
\* stop at an empty page; crawl_all_videos goes on to the next page without
\* waiting, crawl_all_comments collects first; generate_and_crawl partitions
\* the one list of keywords it generated, empty or not
PoolFetch ==
    /\ wp.pc = "fetch"
    /\ \E m \in 0..MaxItems :
          LET items == [j \in 1..m |-> wp.skip + j]
              submitted == Submit(Distribute(0, 0, items, wp.num_threads))
          IN  /\ (m > 0 /\ wp.service # "keywords") => wp.fetched < MaxFetches
              /\ IF m = 0 /\ wp.service # "keywords"
                 THEN /\ wp' = [wp EXCEPT !.pc = IF wp.service = "video" THEN "collect"
                                                                        ELSE "returned"]
                      /\ futures' = futures
                 ELSE /\ wp' = [wp EXCEPT !.pc = IF wp.service = "video" THEN "fetch"
                                                                        ELSE "collect",
                                          !.skip = @ + m, !.fetched = @ + 1]
                      /\ futures' = futures \o submitted
    /\ UNCHANGED <<rqueue, notWp>>

\* process_batch / process_keyword_batch in a pool thread, from its start to
\* its end
ProcessBatch ==
    /\ \E f \in 1..Len(futures) : \E outcome \in -1..MaxChildren :
          /\ futures[f].state = "pending"
          /\ futures' = [futures EXCEPT ![f].state = "done",
                                        ![f].children = IF outcome < 0 THEN 0 ELSE outcome,
                                        ![f].error = IF outcome < 0 THEN "raised" ELSE "none"]
          /\ rqueue' = IF wp.service = "keywords" THEN rqueue
                       ELSE PutResult(rqueue, BatchResult(f, futures[f].batch, outcome))
    /\ UNCHANGED <<wp, notWp>>

\* as_completed(futures) yields a completed future; the services take one
\* result from result_queue, generate_and_crawl calls future.result()
PoolCollect ==
    /\ wp.pc = "collect"
    /\ wp.collected < Cardinality(Completed)
    /\ IF wp.service = "keywords"
       THEN /\ wp' = [wp EXCEPT !.collected = @ + 1]
            /\ rqueue' = rqueue
       ELSE /\ rqueue # <<>>
            /\ wp' = [AddResult(wp, Head(rqueue)) EXCEPT !.collected = @ + 1]
            /\ rqueue' = Tail(rqueue)
    /\ UNCHANGED <<futures, notWp>>

\* the loop over as_completed(futures) ends: crawl_all_comments fetches the
\* next page, the others return
PoolDone ==
    /\ wp.pc = "collect"
    /\ wp.collected = Len(futures)
    /\ wp' = [wp EXCEPT !.pc = IF wp.service = "comment" THEN "fetch" ELSE "returned"]
    /\ UNCHANGED <<futures, rqueue, notWp>>

InitWorkerPool ==
    /\ \E service \in Services, num_threads \in 1..MaxThreads : wp = NewRun(service, num_threads)
    /\ futures = <<>>
    /\ rqueue = <<>>
    /\ PoolIdle
    /\ StoreIdle
    /\ EntIdle
    /\ KwIdle
    /\ RetryIdle
    /\ MqIdle
    /\ ApiIdle
    /\ StageIdle
    /\ KbIdle
    /\ BlIdle
    /\ FrIdle
    /\ SiIdle

NextWorkerPool ==
    \/ PoolFetch
    \/ ProcessBatch
    \/ PoolCollect
    \/ PoolDone

SpecWorkerPool == InitWorkerPool /\ [][NextWorkerPool]_vars

\* ====================================================== queue consumers
\* RabbitMQConsumer.process_message (manual acknowledgement, prefetch 1) and
\* KafkaRequestConsumer (enable_auto_commit=True).  The message is "ready"
\* in the queue, "unacked" once delivered and neither acknowledged nor
\* requeued, "acked" once the broker has removed it (RabbitMQ) or the
\* consumer group's offset has passed it (Kafka).
MaxDeliveries == 2     \* deliveries of the message in a run

ConsumerKinds == {"rabbitmq", "kafka"}

Messages ==
    {Message(json, action, id, alt) :
        json \in {"ok", "bad"}, action \in {"CHANNEL_INFO", "VIDEO_INFO", "OTHER"},
        id \in {"yes", "no"}, alt \in {"yes", "no"}}

\* the crawl the if/elif chain of process_message calls for a decoded
\* message; "none" when no branch calls one
Route(msg) ==
    IF msg.action = "CHANNEL_INFO"
    THEN (IF msg.id = "yes" THEN "crawl_channel_by_id"
          ELSE IF msg.alt = "yes" THEN "crawl_channel_by_custom_urls"
          ELSE "none")
    ELSE IF msg.action = "VIDEO_INFO"
    THEN (IF msg.id = "yes" THEN "crawl_video_by_ids" ELSE "none")
    ELSE "none"

\* a known action whose body has neither the id nor the alternate key
NoKey(msg) == msg.action \in {"CHANNEL_INFO", "VIDEO_INFO"} /\ msg.id = "no" /\ msg.alt = "no"

\* RabbitMQConsumer.process_message: what it ran and what it told the
\* broker.  `result` is what the crawl does if one is called: "returned" or
\* "raised".  basic_nack is called without requeue=, which requeues.
RmqProcessMessage(msg, result) ==
    IF msg.json = "bad"
    THEN [crawl |-> "none", outcome |-> "JSONDecodeError", signal |-> "none"]
    ELSE IF NoKey(msg)
    THEN [crawl |-> "none", outcome |-> "none", signal |-> "nack"]
    ELSE IF Route(msg) = "none"
    THEN [crawl |-> "none", outcome |-> "none", signal |-> "ack"]
    ELSE [crawl |-> Route(msg), outcome |-> result,
          signal |-> IF result = "returned" THEN "ack" ELSE "none"]

\* KafkaRequestConsumer: the value_deserializer raises on an undecodable
\* value before process_message is called; process_message logs every
\* exception and tells the broker nothing
KafkaProcessMessage(msg, result) ==
    IF msg.json = "bad"
    THEN [crawl |-> "none", outcome |-> "JSONDecodeError", signal |-> "none"]
    ELSE IF Route(msg) = "none"
    THEN [crawl |-> "none", outcome |-> "none", signal |-> "none"]
    ELSE [crawl |-> Route(msg), outcome |-> result, signal |-> "none"]

\* where the broker has the message after the handler's signal
AfterSignal(signal) ==
    IF signal = "ack" THEN "acked" ELSE IF signal = "nack" THEN "ready" ELSE "unacked"

\* the message is delivered and its handler runs to its end
ProcessMessage ==
    /\ mq.state = "ready"
    /\ mq.deliveries < MaxDeliveries
    /\ \E result \in {"returned", "raised"} :
          LET h == IF mq.kind = "rabbitmq" THEN RmqProcessMessage(mq.msg, result)
                                           ELSE KafkaProcessMessage(mq.msg, result)
          IN  mq' = [mq EXCEPT !.state = AfterSignal(h.signal),
                               !.deliveries = @ + 1,
                               !.crawls = @ + (IF h.crawl = "none" THEN 0 ELSE 1),
                               !.crawl = h.crawl, !.outcome = h.outcome, !.signal = h.signal]
    /\ UNCHANGED notMq

\* the Kafka consumer's next poll commits the offsets of the messages it
\* has handed out (enable_auto_commit=True); a deserializer error has ended
\* the consumer loop before
AutoCommit ==
    /\ mq.kind = "kafka"
    /\ mq.state = "unacked"
    /\ mq.outcome # "JSONDecodeError"
    /\ mq' = [mq EXCEPT !.state = "acked"]
    /\ UNCHANGED notMq

\* the consumer's connection ends and a new consumer starts: the broker
\* hands out the unacknowledged / uncommitted message again
Reconnect ==
    /\ mq.state = "unacked"
    /\ mq' = [mq EXCEPT !.state = "ready"]
    /\ UNCHANGED notMq

\* the message behind the first one is delivered, handled and acknowledged.
\* RabbitMQ with basic_qos(prefetch_count=1) hands the consumer a message only
\* while it holds no unacknowledged one; the Kafka loop takes the next record
\* unless the deserializer error ended it
DeliverLater ==
    /\ mq.later = "ready"
    /\ mq.deliveries > 0
    /\ IF mq.kind = "rabbitmq" THEN mq.state # "unacked"
                               ELSE mq.outcome # "JSONDecodeError"
    /\ mq' = [mq EXCEPT !.later = "acked"]
    /\ UNCHANGED notMq

\* channel.start_consuming() goes on waiting: the consumer holds an
\* unacknowledged message and the broker sends it nothing
ConsumerWait ==
    /\ mq.kind = "rabbitmq"
    /\ mq.state = "unacked"
    /\ mq' = [mq EXCEPT !.passes = (@ + 1) % 2]
    /\ UNCHANGED notMq

InitConsumer ==
    /\ \E kind \in ConsumerKinds, msg \in Messages : mq = NewConsumer(kind, msg)
    /\ PoolIdle
    /\ StoreIdle
    /\ EntIdle
    /\ KwIdle
    /\ RetryIdle
    /\ WpIdle
    /\ ApiIdle
    /\ StageIdle
    /\ KbIdle
    /\ BlIdle
    /\ FrIdle
    /\ SiIdle

NextConsumer ==
    \/ ProcessMessage
    \/ AutoCommit
    \/ Reconnect
    \/ DeliverLater
    \/ ConsumerWait

SpecConsumer == InitConsumer /\ [][NextConsumer]_vars

\* the broker delivers what it may deliver and the consuming loop keeps
\* running; nothing makes the connection end
SpecConsumerLive ==
    /\ InitConsumer
    /\ [][NextConsumer]_vars
    /\ WF_vars(ProcessMessage)
    /\ WF_vars(DeliverLater)
    /\ WF_vars(ConsumerWait)

\* ------------------------------------------------------- YouTube API client
\* utils/api.py over the MongoDB key manager. One run is one call of
\* search_channel_by_keyword, get_channel_details or
\* get_channels_playlist_videos (for one uploads playlist); every action is
\* one iteration of the call's loop, with its except clauses and the rotation
\* they call. The remote API is part of the state: it refuses a call with
\* quotaExceeded when its own count for the key of the service is used up,
\* whatever the pool's document says, and may fail in another way.

\* bounds
MaxLocal == 2

MaxRemote == 2

MaxPages == 3

MaxBatchItems == 2

CallWrap == 2

ApiStages == {"search", "detail", "playlist"}

\* the three search methods of YouTubeAPI
SearchMethods == {"search_channel_by_keyword", "search_channel_and_video_by_keyword",
                  "search_video_by_keyword_filter_pulished_date"}

\* the methods of a stage
Methods(stage) ==
    IF stage = "search" THEN SearchMethods
    ELSE IF stage = "detail" THEN {"get_channel_details"}
    ELSE {"get_channels_playlist_videos"}

\* the except clause of search_channel_by_keyword rotates when the reason is
\* quotaExceeded and retries otherwise; the two other search methods rotate
\* on every HttpError
Rotates(method, resp) ==
    \/ resp = "quotaExceeded"
    \/ resp = "error" /\ method # "search_channel_by_keyword"

\* "once": the next request fails with an HttpError other than quotaExceeded;
\* "always": every request does; "playlistNotFound": the playlist is missing
Faults == {"none", "once", "always", "playlistNotFound"}

\* used_quota += 100 per search call
SearchCost == 100

\* used_quota += 1 per channel item of a details response
ItemCost == 1

\* used_quota += 1 per playlistItems call
PageCost == 1

CallCost(stage) == IF stage = "search" THEN SearchCost ELSE PageCost

\* APIKeyManager.get_active_api_keys, as _load_api_keys lists it
get_active_api_keys(pool) == Ascending({k \in ApiKeys : pool[k].status = "active"})

\* APIKeyManager.update_quota called by the one thread of the client
update_quota(pool, key, quota_used) ==
    [pool EXCEPT ![key] = MgUpdate(pool[key], pool[key], quota_used, 0)]

\* YouTubeAPI._build_service: the key the service is built with
build_service(c) ==
    IF c.api_keys = <<>> THEN None ELSE c.api_keys[c.current_key_index + 1]

\* YouTubeAPI._switch_api_key: [api, pool, ok]
switch_api_key(c, pool) ==
    LET marked == IF c.current_key_index < Len(c.api_keys)
                  THEN LET current_api_key == c.api_keys[c.current_key_index + 1]
                       IN  IF pool[current_api_key].remaining_quota <= 0
                           THEN update_quota(pool, current_api_key, 0)
                           ELSE pool
                  ELSE pool
        reload == c.current_key_index + 1 >= Len(c.api_keys)
        c1     == IF reload
                  THEN [c EXCEPT !.api_keys = get_active_api_keys(marked),
                                 !.current_key_index = 0]
                  ELSE [c EXCEPT !.current_key_index = @ + 1]
    IN  IF reload /\ c1.api_keys = <<>>
        THEN [api |-> c1, pool |-> marked, ok |-> FALSE]
        ELSE [api |-> [c1 EXCEPT !.youtube = build_service(c1)],
              pool |-> marked, ok |-> TRUE]

\* what request.execute() does with the service of the client
Response(c, rem) ==
    IF c.fault \in {"once", "always"} THEN "error"
    ELSE IF c.fault = "playlistNotFound" THEN "playlistNotFound"
    ELSE IF rem[c.youtube] = 0 THEN "quotaExceeded"
    ELSE "ok"

AfterFault(fault) == IF fault = "once" THEN "none" ELSE fault

\* response.get("nextPageToken"): page t of total pages names page t + 1
NextPageToken(token, total) == IF token + 1 < total THEN token + 1 ELSE None

\* a retry that starts the listing over
RetryCursor_Restart(next_page_token) == None

\* `continue` in the except clause: next_page_token is not assigned
RetryCursor(next_page_token) == next_page_token

\* used_api_key = self.api_keys[self.current_key_index], when there is one
UsedKey(c) ==
    IF c.current_key_index < Len(c.api_keys)
    THEN c.api_keys[c.current_key_index + 1]
    ELSE c.used_api_key

\* a successful call made with the service's key, and what of it was charged
Account(led, made_with, cost, charged_to, amount) ==
    LET l1 == [led EXCEPT ![made_with].spent = @ + cost]
    IN  IF charged_to = None THEN l1
        ELSE [l1 EXCEPT ![charged_to].charged = @ + amount]

\* used_api_key after a rotation: search_channel_by_keyword assigns it again,
\* the two other search methods keep the key they read before the loop
UsedKeyAfterSwitch(c) ==
    IF c.method = "search_channel_by_keyword" THEN UsedKey(c) ELSE c.used_api_key

\* how a paginated loop goes on after a page
AfterPage(c, token, pages) ==
    IF token = None
    THEN [c EXCEPT !.pages = pages, !.next_page_token = token,
                   !.pc = "returned", !.exit = "cursor"]
    ELSE IF Len(pages) >= c.cap
    THEN [c EXCEPT !.pages = pages, !.next_page_token = token,
                   !.pc = "returned", !.exit = "cap"]
    ELSE [c EXCEPT !.pages = pages, !.next_page_token = token]

\* a search method before its loop
SearchStart ==
    /\ api.stage = "search" /\ api.pc = "start"
    /\ LET sw == switch_api_key(api, apool)
       IN  IF api.youtube = None
           THEN /\ apool' = sw.pool
                /\ api' = IF sw.ok
                          THEN [sw.api EXCEPT !.pc = "loop", !.used_api_key = UsedKey(sw.api)]
                          ELSE [sw.api EXCEPT !.pc = "returned", !.exit = "no credential"]
           ELSE /\ apool' = apool
                /\ api' = [api EXCEPT !.pc = "loop", !.used_api_key = UsedKey(api)]
    /\ UNCHANGED <<remote, ledger, notApi>>

\* one iteration of a search method's while loop
SearchRequest ==
    /\ api.stage = "search" /\ api.pc = "loop"
    /\ LET resp == Response(api, remote)
           c0   == [api EXCEPT !.last = resp, !.fault = AfterFault(@),
                               !.call_count = (@ + 1) % CallWrap]
           sw   == switch_api_key(c0, apool)
       IN  CASE resp = "ok" ->
                  LET charge == api.current_key_index < Len(api.api_keys)
                  IN  /\ remote' = [remote EXCEPT ![api.youtube] = @ - 1]
                      /\ apool' = IF charge
                                  THEN update_quota(apool, api.used_api_key, SearchCost)
                                  ELSE apool
                      /\ ledger' = Account(ledger, api.youtube, SearchCost,
                                           IF charge THEN api.used_api_key ELSE None,
                                           SearchCost)
                      /\ api' = AfterPage(c0, NextPageToken(api.next_page_token, api.total),
                                          Append(api.pages, api.next_page_token))
             [] resp # "ok" /\ Rotates(api.method, resp) ->
                  /\ apool' = sw.pool
                  /\ api' = IF sw.ok
                            THEN [sw.api EXCEPT !.used_api_key = UsedKeyAfterSwitch(sw.api),
                                                !.next_page_token = RetryCursor(@),
                                                !.rotated_at = IF resp = "quotaExceeded"
                                                               THEN api.next_page_token ELSE @]
                            ELSE [sw.api EXCEPT !.pc = "returned", !.exit = "no credential"]
                  /\ UNCHANGED <<remote, ledger>>
             [] OTHER ->
                  /\ api' = [c0 EXCEPT !.next_page_token = RetryCursor(@)]
                  /\ UNCHANGED <<apool, remote, ledger>>
    /\ UNCHANGED notApi

RECURSIVE ChargeItems(_, _, _)
\* update_quota(current_api_key, 1) once per item of the response
ChargeItems(pool, key, n) ==
    IF n = 0 THEN pool ELSE ChargeItems(update_quota(pool, key, ItemCost), key, n - 1)

\* the for loop of get_channel_details moves to the next batch
NextBatch(c) ==
    IF c.i + 1 >= c.total
    THEN [c EXCEPT !.i = @ + 1, !.pc = "returned", !.exit = "done"]
    ELSE [c EXCEPT !.i = @ + 1]

\* one iteration of get_channel_details' for loop
DetailRequest ==
    /\ api.stage = "detail" /\ api.pc = "loop"
    /\ IF api.youtube = None
       THEN /\ api' = [api EXCEPT !.pc = "raised", !.exit = "AttributeError"]
            /\ UNCHANGED <<apool, remote, ledger>>
       ELSE LET resp == Response(api, remote)
                c0   == [api EXCEPT !.last = resp, !.fault = AfterFault(@)]
                sw   == switch_api_key(c0, apool)
            IN  IF resp = "ok"
                THEN \E n \in 0..MaxBatchItems :
                       LET key == UsedKey(api)
                       IN  /\ remote' = [remote EXCEPT ![api.youtube] = @ - 1]
                           /\ apool' = ChargeItems(apool, key, n)
                           /\ ledger' = Account(ledger, api.youtube, n * ItemCost,
                                                key, n * ItemCost)
                           /\ api' = NextBatch([c0 EXCEPT !.done = @ \cup {api.i}])
                ELSE /\ apool' = sw.pool
                     /\ api' = IF sw.ok
                               THEN NextBatch([sw.api EXCEPT !.rotated_at =
                                       IF resp = "quotaExceeded" THEN api.i ELSE @])
                               ELSE [sw.api EXCEPT !.pc = "returned", !.exit = "no credential"]
                     /\ UNCHANGED <<remote, ledger>>
    /\ UNCHANGED notApi

\* one iteration of get_channels_playlist_videos' while loop for a playlist
PlaylistRequest ==
    /\ api.stage = "playlist" /\ api.pc = "loop"
    /\ IF api.youtube = None
       THEN /\ api' = [api EXCEPT !.pc = "returned", !.exit = "Exception"]
            /\ UNCHANGED <<apool, remote, ledger>>
       ELSE LET resp == Response(api, remote)
                c0   == [api EXCEPT !.last = resp, !.fault = AfterFault(@)]
                sw   == switch_api_key(c0, apool)
            IN  CASE resp = "ok" ->
                       /\ remote' = [remote EXCEPT ![api.youtube] = @ - 1]
                       /\ ledger' = Account(ledger, api.youtube, PageCost, None, 0)
                       /\ api' = AfterPage(c0, NextPageToken(api.next_page_token, api.total),
                                           Append(api.pages, api.next_page_token))
                       /\ UNCHANGED apool
                  [] resp = "playlistNotFound" ->
                       /\ api' = [c0 EXCEPT !.pc = "returned", !.exit = "playlistNotFound"]
                       /\ UNCHANGED <<apool, remote, ledger>>
                  [] OTHER ->
                       /\ apool' = sw.pool
                       /\ api' = IF sw.ok
                                 THEN [sw.api EXCEPT !.next_page_token = RetryCursor(@),
                                                     !.rotated_at =
                                                        IF resp = "quotaExceeded"
                                                        THEN api.next_page_token ELSE @]
                                 ELSE [sw.api EXCEPT !.pc = "returned",
                                                     !.exit = "no credential"]
                       /\ UNCHANGED <<remote, ledger>>
    /\ UNCHANGED notApi

\* a client constructed over a pool whose documents are consistent, and a
\* remote count that need not agree with them
InitApi ==
    /\ \E stage \in ApiStages, total \in 1..MaxPages, cap \in 1..MaxPages, fault \in Faults :
         /\ fault = "playlistNotFound" => stage = "playlist"
         /\ stage = "detail" => cap = total
         /\ \E q \in [ApiKeys -> 0..MaxLocal], r \in [ApiKeys -> 0..MaxRemote] :
              /\ apool = [k \in ApiKeys |->
                            Row(q[k] * CallCost(stage), GetStatus(q[k]), 0)]
              /\ remote = r
              /\ \E method \in Methods(stage) :
                    api = NewApi(stage, method, get_active_api_keys(apool), total, cap, fault)
    /\ ledger = [k \in ApiKeys |-> [charged |-> 0, spent |-> 0]]
    /\ PoolIdle
    /\ StoreIdle
    /\ EntIdle
    /\ KwIdle
    /\ RetryIdle
    /\ WpIdle
    /\ MqIdle
    /\ StageIdle
    /\ KbIdle
    /\ BlIdle
    /\ FrIdle
    /\ SiIdle

NextApi ==
    \/ SearchStart
    \/ SearchRequest
    \/ DetailRequest
    \/ PlaylistRequest

\* the loop of a running call takes its next iteration
SpecApi == InitApi /\ [][NextApi]_vars /\ WF_vars(NextApi)

\* ------------------------------------------------------- pipeline stages
\* controller/crawler.py: crawl_videos_from_channels (the listing of the
\* uploads playlists, which retires the channel) and
\* crawl_comments_from_videos. MIN_ENTITY_IN_BATCH is 1: each batch is one
\* playlist, one video. The store calls either work or fail; what the API
\* client returns is an input.

\* bound
MaxListed == 1

\* YouTubeAPI.get_all_videos_from_playlist(batch_playlist_ids): the listing
\* of the batch's playlists runs to its end, a playlist without videos
\* included, or the call raises
get_all_videos_from_playlist(e, outcome) ==
    IF outcome = "raised" THEN [e EXCEPT !.pc = "raised"]
    ELSE LET c == e.playlist_ids[e.i]
         IN  [e EXCEPT !.pc = "write", !.videos = e.chan[c].kids,
                       !.crawled_playlist_ids = {c}]

\* the for loop over playlist_ids is entered, or is over
ExpandLoop(e) ==
    IF e.i > Len(e.playlist_ids) THEN [e EXCEPT !.pc = "done"] ELSE e

\* crawl_videos_from_channels: next batch, api.get_all_videos_from_playlist
ExpandList ==
    /\ ex.pc = "list"
    /\ IF ex.i > Len(ex.playlist_ids)
       THEN ex' = ExpandLoop(ex)
       ELSE \E outcome \in {"returned", "raised"} :
               ex' = get_all_videos_from_playlist(ex, outcome)
    /\ UNCHANGED <<lf, notStage>>

\* db.insert_many_videos(batch_videos): nothing to do for an empty batch;
\* otherwise the bulk write, whose exception is raised again
ExpandWrite ==
    /\ ex.pc = "write"
    /\ LET c == ex.playlist_ids[ex.i]
       IN  IF ex.videos = 0
           THEN ex' = [ex EXCEPT !.pc = "advance"]
           ELSE \E outcome \in {"written", "raised"} :
                   ex' = IF outcome = "written"
                         THEN [ex EXCEPT !.pc = "advance", !.stored[c] = ex.videos]
                         ELSE [ex EXCEPT !.pc = "raised"]
    /\ UNCHANGED <<lf, notStage>>

\* db.update_channels_status_by_playlist_ids(crawled_playlist_ids): the
\* channels with one of the ids get status crawled_video; an exception of
\* the store is caught and reported as updated_count 0
ExpandAdvance ==
    /\ ex.pc = "advance"
    /\ \E outcome \in {"updated", "failed"} :
          LET chan == IF outcome = "updated"
                      THEN [c \in DOMAIN ex.chan |->
                              IF c \in ex.crawled_playlist_ids /\ ex.chan[c].playlistId = "yes"
                              THEN [ex.chan[c] EXCEPT !.status = "crawled_video"]
                              ELSE ex.chan[c]]
                      ELSE ex.chan
          IN  ex' = ExpandLoop([ex EXCEPT !.chan = chan, !.i = @ + 1, !.pc = "list"])
    /\ UNCHANGED <<lf, notStage>>

\* what api.get_video_comments(video_id) gives: comments, a result without
\* comments, nothing, or an exception
CommentResults == {"comments", "no comments", "None", "raised"}

\* the return statement: crawler.py reads db_result, which only a batch with
\* comments has bound; crawler_auto.py binds it before the loop
LeafLoop(l) ==
    IF l.i <= Cardinality(StageIds) THEN l
    ELSE IF l.mod = "crawler" /\ l.db_result = "unbound"
    THEN [l EXCEPT !.pc = "raised"]
    ELSE [l EXCEPT !.pc = "done"]

\* crawl_comments_from_videos: the batch's video, api.get_video_comments
LeafGet ==
    /\ lf.pc = "get"
    /\ \E result \in CommentResults, n \in 1..MaxListed :
          LET v == lf.i
              found == IF result = "comments" THEN n ELSE 0
          IN  lf' = [lf EXCEPT !.pc = "write",
                               !.comment_result = IF result = "raised" THEN @ ELSE result,
                               !.fetched[v] = found,
                               !.batch_comments = found,
                               !.batch_crawled_videos =
                                   IF result \in {"comments", "no comments"} THEN {v} ELSE {}]
    /\ UNCHANGED <<ex, notStage>>

\* if batch_comments: db.insert_many_comments(batch_comments), which catches
\* the exception of the bulk write and returns error_count
LeafWrite ==
    /\ lf.pc = "write"
    /\ IF lf.batch_comments = 0
       THEN lf' = [lf EXCEPT !.pc = "advance"]
       ELSE \E outcome \in {"written", "errors"} :
               lf' = [lf EXCEPT !.pc = "advance", !.db_result = outcome,
                                !.stored[lf.i] = IF outcome = "written"
                                                 THEN lf.batch_comments ELSE @]
    /\ UNCHANGED <<ex, notStage>>

\* if batch_crawled_videos: db.update_videos_status_by_video_ids(...)
LeafAdvance ==
    /\ lf.pc = "advance"
    /\ \E outcome \in {"updated", "failed"} :
          LET status == IF outcome = "updated"
                        THEN [v \in StageIds |->
                                IF v \in lf.batch_crawled_videos
                                THEN "crawled_comment" ELSE lf.status[v]]
                        ELSE lf.status
          IN  lf' = LeafLoop([lf EXCEPT !.status = status, !.i = @ + 1, !.pc = "get",
                                        !.result_update_status =
                                            IF lf.batch_crawled_videos = {} THEN @
                                            ELSE outcome])
    /\ UNCHANGED <<ex, notStage>>

\* channels at crawled_channel, with or without an uploads playlist, and the
\* videos at crawled_video
InitStages ==
    /\ \E p \in [StageIds -> {"yes", "no"}], k \in [StageIds -> 0..MaxListed] :
          ex = NewExpand([c \in StageIds |->
                            [status |-> "crawled_channel", playlistId |-> p[c],
                             kids |-> IF p[c] = "yes" THEN k[c] ELSE 0]])
    /\ \E mod \in {"crawler", "crawler_auto"} : lf = NewLeafFetch(mod)
    /\ PoolIdle
    /\ StoreIdle
    /\ EntIdle
    /\ KwIdle
    /\ RetryIdle
    /\ WpIdle
    /\ MqIdle
    /\ ApiIdle
    /\ KbIdle
    /\ BlIdle
    /\ FrIdle
    /\ SiIdle

NextStages ==
    \/ ExpandList
    \/ ExpandWrite
    \/ ExpandAdvance
    \/ LeafGet
    \/ LeafWrite
    \/ LeafAdvance

SpecStages == InitStages /\ [][NextStages]_vars

\* -------------------------------------------------------- keyword batches
\* services/generate_keywords.py: generate_and_crawl splits the keywords it
\* got among max_workers threads, each of which runs process_keyword_batch
\* over its batch. What happens to one keyword (the status read, the crawl,
\* the status writes) enters as its outcome.

\* bound
MaxKeywords == 3

\* keywords[start_idx:end_idx] of thread i (0-based) of generate_and_crawl
KeywordBatch(total, i) ==
    LET max_workers == Cardinality(KbThreads)
        keywords_per_thread == total \div max_workers
        remaining_keywords == total % max_workers
        start_idx == i * keywords_per_thread + Min(i, remaining_keywords)
        batch_size == keywords_per_thread + (IF i < remaining_keywords THEN 1 ELSE 0)
    IN  [j \in 1..batch_size |-> start_idx + j]

\* "skipped": the keyword is already crawled; "crawled"; "invalid": no
\* document or another status; "error": an exception, status error written;
\* "error unrecorded": an exception and the write of the status raised too
KeywordOutcomes == {"skipped", "crawled", "invalid", "error", "error unrecorded"}

KeywordFailed(outcome) == outcome \in {"error", "error unrecorded"}

\* an except clause around the whole loop only
AfterKeyword_AbortBatch(th, outcome) ==
    LET done == [th EXCEPT !.log = Append(@, [keyword |-> th.keywords[th.idx],
                                               outcome |-> outcome]),
                           !.idx = @ + 1]
    IN  IF KeywordFailed(outcome) \/ done.idx > Len(done.keywords)
        THEN [done EXCEPT !.pc = "done"]
        ELSE done

\* the body of the for loop has run for the keyword at idx: every path,
\* the except clause included, leads to the next keyword
AfterKeyword(th, outcome) ==
    LET done == [th EXCEPT !.log = Append(@, [keyword |-> th.keywords[th.idx],
                                               outcome |-> outcome]),
                           !.idx = @ + 1]
    IN  IF done.idx > Len(done.keywords)
        THEN [done EXCEPT !.pc = "done"]
        ELSE done

\* process_keyword_batch starts: db = Database(), whose exception ends the
\* batch in the outer except clause
BatchStart(t) ==
    /\ kb[t].pc = "submitted"
    /\ \E db \in {"open", "failed"} :
          kb' = [kb EXCEPT ![t].db = db,
                           ![t].pc = IF db = "open" /\ kb[t].keywords # <<>>
                                     THEN "running" ELSE "done"]
    /\ UNCHANGED notKb

\* process_keyword_batch: one keyword of the batch
BatchKeyword(t) ==
    /\ kb[t].pc = "running"
    /\ \E outcome \in KeywordOutcomes :
          kb' = [kb EXCEPT ![t] = AfterKeyword(kb[t], outcome)]
    /\ UNCHANGED notKb

\* generate_and_crawl has submitted the batches: a thread beyond the number
\* of keywords gets none
InitBatches ==
    /\ \E total \in 1..MaxKeywords :
          kb = [t \in KbThreads |->
                   IF KeywordBatch(total, t - 1) = <<>>
                   THEN NewBatchThread("not submitted", <<>>)
                   ELSE NewBatchThread("submitted", KeywordBatch(total, t - 1))]
    /\ PoolIdle
    /\ StoreIdle
    /\ EntIdle
    /\ KwIdle
    /\ RetryIdle
    /\ WpIdle
    /\ MqIdle
    /\ ApiIdle
    /\ StageIdle
    /\ BlIdle
    /\ FrIdle
    /\ SiIdle

NextBatches ==
    \E t \in KbThreads :
        \/ BatchStart(t)
        \/ BatchKeyword(t)

SpecBatches == InitBatches /\ [][NextBatches]_vars

\* ============================================================== backlog
\* The loops that work through "all records with status = X" of a collection:
\* VideoCrawlerService.crawl_all_videos, CommentCrawlerService.crawl_all_comments,
\* crawl_videos_from_crawled_channels and crawl_comments_from_crawled_videos.
\* Each queries find({"status": X}).skip(skip).limit(batch_size), stops at an
\* empty page, hands the page to its threads and adds the length of the page
\* to skip.  Nothing marks a record as taken: a record leaves the result of
\* the query only when its crawl advanced its status.

MaxPageSize == 2

\* find({"status": X}).skip(skip).limit(limit): the records that have the
\* status at the time of the query, in the order of the collection, from the
\* skip-th on
BacklogPage(status, skip, limit) ==
    LET matching == Ascending({id \in BlIds : status[id] = "X"})
    IN  SubSeq(matching, skip + 1, Min(skip + limit, Len(matching)))

\* one pass of "while True": the query, the break at an empty page, the
\* submission of the page to the threads and skip += len(page); a run that
\* waits for its page does the addition after the page was collected, which
\* nothing observes in between
BacklogQuery(r) ==
    LET run == bl.run[r]
        page == BacklogPage(bl.status, run.skip, bl.batch_size)
        ids == {page[i] : i \in 1..Len(page)}
    IN  /\ run.pc = "query"
        /\ bl' = [bl EXCEPT !.run[r] =
                     IF page = <<>>
                     THEN [run EXCEPT !.pc = IF run.waits THEN "returned" ELSE "collect"]
                     ELSE [run EXCEPT !.pc = IF run.waits THEN "process" ELSE "query",
                                      !.skip = @ + Len(page),
                                      !.pending = @ \cup ids,
                                      !.picked = @ \cup ids]]
        /\ UNCHANGED notBl

\* a thread of the run crawls one record of a page; the record leaves status
\* X when the crawl advanced it, and keeps it when the crawl failed
BacklogProcess(r) ==
    /\ \E id \in bl.run[r].pending : \E advanced \in BOOLEAN :
          LET run == bl.run[r]
              rest == run.pending \ {id}
          IN  bl' = [bl EXCEPT !.status[id] = IF advanced THEN "advanced" ELSE @,
                               !.run[r] = [run EXCEPT !.pending = rest,
                                                      !.pc = IF run.pc = "process" /\ rest = {}
                                                             THEN "query" ELSE @]]
    /\ UNCHANGED notBl

\* crawl_all_videos after its loop: as_completed(futures) has yielded every
\* future
BacklogCollect(r) ==
    /\ bl.run[r].pc = "collect"
    /\ bl.run[r].pending = {}
    /\ bl' = [bl EXCEPT !.run[r].pc = "returned"]
    /\ UNCHANGED notBl

InitBacklog ==
    /\ \E initial \in SUBSET BlIds, batch_size \in 1..MaxPageSize,
          waits \in [BlRuns -> BOOLEAN], started \in {{1}, {1, 2}} :
          bl = [status |-> [id \in BlIds |-> IF id \in initial THEN "X" ELSE "advanced"],
                initial |-> initial,
                batch_size |-> batch_size,
                run |-> [r \in BlRuns |->
                            NewBacklogRun(IF r \in started THEN "query" ELSE "not started",
                                          waits[r])]]
    /\ PoolIdle
    /\ StoreIdle
    /\ EntIdle
    /\ KwIdle
    /\ RetryIdle
    /\ WpIdle
    /\ MqIdle
    /\ ApiIdle
    /\ StageIdle
    /\ KbIdle
    /\ FrIdle
    /\ SiIdle

NextBacklog ==
    \/ \E r \in BlRuns : BacklogQuery(r)
    \/ \E r \in BlRuns : BacklogProcess(r)
    \/ \E r \in BlRuns : BacklogCollect(r)

SpecBacklog == InitBacklog /\ [][NextBacklog]_vars

\* ======================================================== rotation loop
\* One client of the PostgreSQL manager that repeats get_api_key() followed
\* by update_quota(key, cost) over keys that all keep a positive budget.
\* The calls follow one another, each in its own session, so each is atomic
\* here; every update_quota reads datetime.utcnow() after the commit and the
\* query that precede it, later than every time stored so far.

MaxAcquisitions == 6   \* get_api_key() calls of the loop
FairBudget == 7        \* every key's quota; more than the loop can charge
FairCost == 1          \* the cost of a charge that succeeds

\* key = get_api_key(): one of the rows the query may return
FairAcquire ==
    /\ fr.pc = "acquire"
    /\ Len(fr.hist) < MaxAcquisitions
    /\ \E k \in PgGetApiKey(fr.table) :
          /\ k # None
          /\ fr' = [fr EXCEPT !.pc = "charge", !.key = k,
                              !.hist = Append(@, [key |-> k, ok |-> "pending"])]
    /\ UNCHANGED notFr

\* update_quota(key, cost): use_quota on the loaded row and commit, or
\* return False without a commit when the cost exceeds the budget
FairCharge ==
    /\ fr.pc = "charge"
    /\ \E cost \in {FairCost, FairBudget + 1} :
          LET t == fr.now + 1
              row == fr.table[fr.key]
              r == use_quota(row, cost, t)
          IN  fr' = [fr EXCEPT !.pc = "acquire",
                               !.now = t,
                               !.table[fr.key] = IF r.ok THEN Flush(row, row, r.obj) ELSE row,
                               !.hist[Len(fr.hist)].ok = IF r.ok THEN "True" ELSE "False"]
    /\ UNCHANGED notFr

InitFair ==
    /\ \E t \in [AllKeys -> 0..1] :
          fr = [pc |-> "acquire",
                table |-> [k \in AllKeys |-> InitRow("postgres", FairBudget, t[k])],
                now |-> 1, key |-> None, hist |-> <<>>]
    /\ PoolIdle
    /\ StoreIdle
    /\ EntIdle
    /\ KwIdle
    /\ RetryIdle
    /\ WpIdle
    /\ MqIdle
    /\ ApiIdle
    /\ StageIdle
    /\ KbIdle
    /\ BlIdle
    /\ SiIdle

NextFair ==
    \/ FairAcquire
    \/ FairCharge

SpecFair == InitFair /\ [][NextFair]_vars

\* ================================================ single-record inserts
\* Database.insert_channel / insert_video and PostgresDatabase.insert_channel
\* / insert_video: an exists-check followed by an insert, in two store calls,
\* inside the retry decorator.  The collections have a unique index on the id
\* (scripts/create_index.py: channelId, videoId; Channel.channel_id and
\* Video.video_id are unique columns), so an insert of an id that is stored
\* raises DuplicateKeyError / IntegrityError, which the decorators retry.

\* an insert_one into a collection without the unique index
insert_one_no_index(docs, id) ==
    [ok |-> TRUE, docs |-> [docs EXCEPT ![id] = @ + 1]]

\* collection.insert_one(doc) / session.add(row); session.commit()
insert_one(docs, id) ==
    IF docs[id] > 0
    THEN [ok |-> FALSE, docs |-> docs]
    ELSE [ok |-> TRUE, docs |-> [docs EXCEPT ![id] = @ + 1]]

\* if not self.channel_exists(channel_data["channelId"])
InsertCheck(w) ==
    /\ si.w[w].pc = "check"
    /\ si' = [si EXCEPT !.w[w].pc = IF si.docs[si.w[w].id] > 0 THEN "returned" ELSE "insert"]
    /\ UNCHANGED notSi

\* the insert; when it raises, the decorator calls the method again unless
\* this was the last attempt
InsertOne(w) ==
    /\ si.w[w].pc = "insert"
    /\ LET r == insert_one(si.docs, si.w[w].id)
       IN  si' = [si EXCEPT !.docs = r.docs,
                            !.w[w] = IF r.ok THEN [@ EXCEPT !.pc = "returned"]
                                     ELSE IF @.attempt < max_retries - 1
                                     THEN [@ EXCEPT !.pc = "check", !.attempt = @ + 1,
                                                    !.duplicate = TRUE]
                                     ELSE [@ EXCEPT !.pc = "raised", !.duplicate = TRUE]]
    /\ UNCHANGED notSi

InitInserts ==
    /\ \E stored \in SUBSET SiIds, id \in [SiWorkers -> SiIds] :
          si = [docs |-> [i \in SiIds |-> IF i \in stored THEN 1 ELSE 0],
                w |-> [w \in SiWorkers |-> NewInsert("check", id[w])]]
    /\ PoolIdle
    /\ StoreIdle
    /\ EntIdle
    /\ KwIdle
    /\ RetryIdle
    /\ WpIdle
    /\ MqIdle
    /\ ApiIdle
    /\ StageIdle
    /\ KbIdle
    /\ BlIdle
    /\ FrIdle

NextInserts ==
    \/ \E w \in SiWorkers : InsertCheck(w)
    \/ \E w \in SiWorkers : InsertOne(w)

SpecInserts == InitInserts /\ [][NextInserts]_vars

\* =============================================================== claims
\* a worker's update_quota call returns in this step
ChargeReturns(w) ==
    /\ sess[w].pc = "loaded" /\ sess[w].op = "update_quota"
    /\ sess'[w].pc = "idle"

\* a worker's get_api_key call runs in this step
GetReturns(w) ==
    /\ sess'[w].op = "get_api_key"
    /\ sess'[w].seq # sess[w].seq

\* the keys get_api_key may hand out: active, with budget left
Qualifies(k) == table[k].status = "active" /\ table[k].remaining_quota > 0

\* C1: the remaining budget of every credential is >= 0 at all times, under
\* the PostgreSQL and the MongoDB manager alike.
C1_BudgetNeverNegative ==
    \A k \in DOMAIN table : table[k].remaining_quota >= 0

\* C2: a charge whose cost is greater than the budget the call read for the
\* credential returns False and commits nothing: remaining budget, status
\* and last-updated time of every row stay as they were (PostgreSQL manager).
C2_RejectedChargeCommitsNothing ==
    [][\A w \in Sessions :
          (/\ backend = "postgres"
           /\ ChargeReturns(w)
           /\ sess[w].cost > sess[w].snap.remaining_quota)
          => (sess'[w].ret = "False" /\ table' = table)]_vars

\* a charge was refused while the key still had budget
C2_Witness ==
    /\ backend = "postgres"
    /\ \E w \in Sessions :
          /\ sess[w].op = "update_quota" /\ sess[w].pc = "idle" /\ sess[w].ret = "False"
          /\ table[sess[w].key].remaining_quota > 0
          /\ table[sess[w].key].last_updated = 0

\* C3: when the two workers have both charged the same credential, the costs
\* of the charges that returned True add up to no more than the budget the
\* credential had, and the stored budget is that budget minus their sum.
\* Stated for the PostgreSQL manager, whose charge refuses a cost above the
\* budget it read, so that only the interleaving of the two calls is at stake.
C3_NoDoubleSpend ==
    \A k \in DOMAIN table :
        (/\ backend = "postgres"
         /\ \A w \in Sessions :
               /\ sess[w].op = "update_quota" /\ sess[w].pc = "idle"
               /\ sess[w].key = k /\ sess[w].ret = "True")
        => (expected[k] >= 0 /\ table[k].remaining_quota = expected[k])

\* C4: after a charge that returned True, the credential's status is
\* "unactive" exactly when its remaining budget is 0, and a charge that
\* leaves a positive budget leaves the status as it was.
C4_StatusFollowsBudget ==
    [][\A w \in Sessions :
          (ChargeReturns(w) /\ sess'[w].ret = "True")
          => LET k == sess[w].key
             IN  /\ (table'[k].status = "unactive") <=> (table'[k].remaining_quota = 0)
                 /\ table'[k].remaining_quota > 0 => table'[k].status = table[k].status]_vars

\* C5: get_api_key() returns a credential that is active with budget left and
\* that no other such credential precedes in last-updated time; it returns
\* None exactly when no credential is active with budget left.
C5_AcquireLeastRecentlyUsed ==
    [][\A w \in Sessions :
          GetReturns(w)
          => LET r == sess'[w].key
             IN  /\ (r = None) <=> (\A k \in DOMAIN table : ~Qualifies(k))
                 /\ r # None =>
                       /\ Qualifies(r)
                       /\ \A j \in DOMAIN table :
                             Qualifies(j) => table[r].last_updated <= table[j].last_updated]_vars

\* the successful charges of the rotation scenario so far
RotCharges == (rot.budget - expected[3]) \div rot.cost

\* C6: with budgets [0, 0, B] and charges of cost c, c dividing B, every
\* get_api_key() returns the third credential while it has budget left and
\* nothing else, and returns None once exactly B / c charges have succeeded.
C6_RotationExhaustsThirdKey ==
    LET s == sess["w1"]
    IN  s.op = "get_api_key" =>
            /\ s.key \in {3, None}
            /\ (s.key = 3) <=> (table[3].remaining_quota > 0)
            /\ (s.key = None) <=> (RotCharges = rot.budget \div rot.cost)
            /\ table[3].remaining_quota = rot.budget - RotCharges * rot.cost

\* the pool ran dry after more than one charge
C6_Witness ==
    /\ sess["w1"].op = "get_api_key" /\ sess["w1"].key = None
    /\ rot.budget \div rot.cost >= 2
    /\ table[3].status = "unactive"

\* a worker's deactivate_key call returns in this step
DeactivateReturns(w) ==
    /\ sess[w].pc = "loaded" /\ sess[w].op = "deactivate_key"
    /\ sess'[w].pc = "idle"

\* a worker's reset_quota or activate_key call on key k returns in this step
RevivedBy(w, k) ==
    /\ sess[w].pc = "loaded" /\ sess[w].key = k
    /\ sess[w].op \in {"reset_quota", "activate_key"}
    /\ sess'[w].pc = "idle"

\* C7: deactivate_key leaves the credential "unactive" whatever its budget
\* (unless it found it "unactive" already and another session activated it
\* meanwhile); get_api_key() never returns an "unactive" credential; and an
\* "unactive" credential becomes "active" only by reset_quota or activate_key.
C7_DeactivatedStaysOut ==
    [][backend = "postgres" =>
          /\ \A w \in Sessions :
                DeactivateReturns(w) =>
                    \/ table'[sess[w].key].status = "unactive"
                    \/ (sess[w].snap.status = "unactive" /\ table[sess[w].key].status = "active")
          /\ \A w \in Sessions :
                (GetReturns(w) /\ sess'[w].key # None) => table[sess'[w].key].status = "active"
          /\ \A k \in DOMAIN table :
                (table[k].status = "unactive" /\ table'[k].status = "active")
                    => \E w \in Sessions : RevivedBy(w, k)]_vars

\* a key deactivated with budget left, and a later get_api_key() that found
\* no key to return
C7_Witness ==
    /\ backend = "postgres"
    /\ \E w, v \in Sessions :
          /\ sess[w].op = "deactivate_key" /\ sess[w].pc = "idle"
          /\ table[sess[w].key].status = "unactive"
          /\ table[sess[w].key].remaining_quota > 0
          /\ sess[v].op = "get_api_key" /\ sess[v].key = None

Fields == {"country", "subscriberCount"}

\* a bulk upsert runs in this step
UpsertReturns == call'.n = call.n + 1

\* a record set: every record has an id, no two records the same one
RecordSet(b) ==
    /\ \A i \in 1..Len(b) : b[i].id # NoId
    /\ \A i, j \in 1..Len(b) : i # j => b[i].id # b[j].id

StoredIds(coll) == {coll[i].id : i \in 1..Len(coll)}

NoDuplicateIds(coll) ==
    \A i, j \in 1..Len(coll) : i # j => coll[i].id # coll[j].id

\* the <<record, field>> places where batch b differs from batch a
Changes(a, b) ==
    {c \in (1..Len(b)) \X Fields : a[c[1]][c[2]] # b[c[1]][c[2]]}

\* b is a with one field of one record given a new value
OneFieldChanged(a, b) ==
    /\ Len(a) = Len(b)
    /\ \A i \in 1..Len(b) : a[i].id = b[i].id
    /\ Cardinality(Changes(a, b)) = 1
    /\ \A c \in Changes(a, b) : b[c[1]][c[2]] \notin {"absent", "null"}

\* the store with that one field of that one document replaced
OneFieldStored(coll, a, b) ==
    LET c == CHOOSE c \in Changes(a, b) : TRUE
        p == Find(coll, b[c[1]].id)
    IN  IF p = 0 THEN coll ELSE [coll EXCEPT ![p][c[2]] = b[c[1]][c[2]]]

\* C9: a bulk upsert of a record set whose ids are new reports N inserted
\* and 0 updated; the same record set again reports 0 inserted; the store
\* never holds two documents with one id; and a further call with one field
\* of one record changed changes that field of that document and nothing else.
C9_IdempotentUpsert ==
    [][UpsertReturns =>
          LET b == call'.batch
          IN  /\ NoDuplicateIds(store')
              /\ (RecordSet(b) /\ StoredIds(store) \cap StoredIds(b) = {})
                     => (~call'.raised /\ call'.inserted = Len(b) /\ call'.updated = 0)
              /\ (RecordSet(b) /\ call.n >= 1 /\ b = call.batch)
                     => (call'.inserted = 0 /\ store' = store)
              /\ (RecordSet(b) /\ call.n >= 1 /\ OneFieldChanged(call.batch, b))
                     => store' = OneFieldStored(store, call.batch, b)]_vars

\* C10: an upsert of a record whose id is stored leaves a stored field as it
\* is when the record does not give the field, and leaves a stored value as
\* it is when the record gives the field as null; for every kind of entity.
C10_NullNeverOverwrites ==
    [][UpsertReturns =>
          \A p \in 1..Len(store), f \in Fields :
              LET given == {call'.batch[i][f] :
                               i \in {j \in 1..Len(call'.batch) : call'.batch[j].id = store[p].id}}
              IN  /\ given \subseteq {"absent"} => store'[p][f] = store[p][f]
                  /\ (given \subseteq {"absent", "null"} /\ store[p][f] \notin {"absent", "null"})
                         => store'[p][f] = store[p][f]]_vars

\* ---------------------------------------------- claims on the statuses
\* the statuses the crawler services select the entities of a stage by
\* before they advance them: channels in crawled_channel, videos in
\* crawled_video
FromAnyOf(k) == IF k = "mongo_videos" THEN {"crawled_video"} ELSE {"crawled_channel"}

\* C11: a status update changes the status only of the records whose status
\* is one of the expected source statuses; a record in any other status is
\* left as it is and is not counted in updated_count (a stored record that
\* has no status field yet is left out of the statement).
C11_AdvanceOnlyFromExpected ==
    [][elast'.op = "advance" /\ <<ent, elast>>' # <<ent, elast>> =>
          /\ \A i \in Ids :
                (Rank(ent[i]) > 0 /\ ent[i] \notin FromAnyOf(ekind)) => ent'[i] = ent[i]
          /\ elast'.updated_count <=
                 Cardinality({i \in elast'.ids :
                                 ent[i] # "none" /\ (Rank(ent[i]) = 0 \/ ent[i] \in FromAnyOf(ekind))})]_vars

\* C12: over any sequence of upserts and status updates the status of a
\* stored entity never moves to an earlier stage; upserting an advanced
\* entity again with status to_crawl does not reset it.
C12_StatusOnlyForward ==
    [][\A i \in Ids :
          (ent[i] # "none" /\ Rank(ent[i]) > 0) => Rank(ent'[i]) >= Rank(ent[i])]_vars

\* ------------------------------------------ claims on keyword dispatch
\* C13: in any interleaving of workers a crawl of a keyword is started only
\* while its stored status is to_crawl; a keyword in crawling, crawled or
\* error is never crawled again.
C13_DispatchOnlyToCrawl ==
    [][\A w \in Sessions :
          (kw[w].pc = "got" /\ kw'[w].pc = "crawling") => kstatus = "to_crawl"]_vars

\* C14: a keyword that a worker has moved from to_crawl to crawling is in
\* crawled or in error when the worker's unit of work returns, never still
\* in crawling; on the PostgreSQL path and on the MongoDB paths.
C14_UnitEndsCrawledOrError ==
    [][\A w \in Sessions :
          (kw[w].pc = "crawling" /\ kw'[w].pc \in {"returned", "raised"})
              => kstatus' \in {"crawled", "error"}]_vars

\* C15: when no credential is left during the crawl of a keyword, the error
\* that reaches the dispatcher is a credentials-exhausted error and the
\* keyword is marked error, never crawled.
C15_ExhaustedMarksError ==
    [][\A w \in Sessions :
          (kw[w].pc = "crawling" /\ kw'[w].pc \in {"returned", "raised"}
                                 /\ kw'[w].creds = "exhausted")
              => /\ kw'[w].error = "CredentialsExhausted"
                 /\ kstatus' = "error"]_vars

\* ------------------------------------------- claims on the retry wrapper
\* every invocation so far raised an exception the except clause takes
AllCaught == \A i \in 1..Len(rlog) : rlog[i] # "ok" /\ Caught(rkind, rlog[i])

\* C16: a wrapped store operation is invoked at most max_retries (3) times
\* per call; when an invocation succeeds its result is returned and nothing
\* is invoked after it; when every invocation raises a retried error the
\* last exception is raised to the caller; None is never returned.
C16_BoundedRetry ==
    /\ Len(rlog) <= max_retries
    /\ \A i \in 1..Len(rlog) :
          rlog[i] = "ok" => (i = Len(rlog) /\ rt.pc = "returned" /\ rt.result = "value")
    /\ (Len(rlog) = max_retries /\ AllCaught)
          => (rt.pc = "raised" /\ rt.exc = rlog[Len(rlog)])
    /\ rt.pc = "returned" => rt.result = "value"
    /\ rt.pc = "loop" => Len(rlog) < max_retries

\* three invocations, all raising a retried error, the last one raised
C16_Witness ==
    /\ Len(rlog) = max_retries
    /\ AllCaught
    /\ rt.pc = "raised"
    /\ rt.slept = delay * 1 + delay * 2

\* the errors that no retry can cure: schema violation, duplicate key,
\* integrity error, bad key
NonTransient == {"WriteError", "DuplicateKeyError", "IntegrityError", "DataError", "KeyError"}

\* C17: a non-transient error raised by the wrapped operation propagates to
\* the caller after that one invocation; the operation is not invoked again.
C17_NonTransientNotRetried ==
    \A i \in 1..Len(rlog) :
        rlog[i] \in NonTransient => (i = 1 /\ Len(rlog) = 1 /\ rt.pc = "raised" /\ rt.exc = rlog[i])

\* --------------------------------------------- claims on the worker pool
\* the batches of these futures, one after the other
RECURSIVE Concatenation(_)
Concatenation(fs) == IF fs = <<>> THEN <<>> ELSE Head(fs).batch \o Concatenation(Tail(fs))

\* the counts the units of work of these futures returned, added up
RECURSIVE SumChildren(_)
SumChildren(fs) == IF fs = <<>> THEN 0 ELSE Head(fs).children + SumChildren(Tail(fs))

\* the partitions this step submitted
Submitted == SubSeq(futures', Len(futures) + 1, Len(futures'))

\* the items this step fetched
Fetched == [j \in 1..(wp'.skip - wp.skip) |-> wp.skip + j]

\* C18: for a list of M >= 0 items and N >= 1 workers (M < N included) the
\* partitions submitted are pairwise disjoint, their concatenation is the
\* whole list, so each item goes to exactly one worker, and no empty
\* partition is submitted.
C18_PartitionComplete ==
    [][(wp.pc = "fetch" /\ wp' # wp) =>
          /\ Concatenation(Submitted) = Fetched
          /\ \A p \in 1..Len(Submitted) : Submitted[p].batch # <<>>
          /\ \A p, q \in 1..Len(Submitted) :
                p # q => \A a \in 1..Len(Submitted[p].batch), b \in 1..Len(Submitted[q].batch) :
                            Submitted[p].batch[a] # Submitted[q].batch[b]
          /\ Len(Submitted) <= wp.num_threads]_vars

\* one item and two workers: one partition submitted
C18_Witness ==
    /\ wp.num_threads = 2
    /\ wp.skip = 1
    /\ Len(futures) = 1
    /\ futures[1].batch = <<1>>

Raised == {f \in 1..Len(futures) : futures[f].error = "raised"}

C21_AckOnlyAfterSuccess ==
    mq.state = "acked" => mq.outcome \notin {"raised", "JSONDecodeError"}

\* undecodable JSON, an unknown action, or a known action with neither key
Malformed(msg) ==
    \/ msg.json = "bad"
    \/ msg.action \notin {"CHANNEL_INFO", "VIDEO_INFO"}
    \/ NoKey(msg)

\* C22: the RabbitMQ consumer drops an unroutable or malformed message: once
\* handled it is removed from the queue without being requeued, it starts no
\* crawl, and it is never delivered again.
C22_MalformedDropped ==
    (mq.kind = "rabbitmq" /\ Malformed(mq.msg)) =>
        /\ mq.crawls = 0
        /\ mq.deliveries <= 1
        /\ mq.deliveries = 1 => mq.state = "acked"

\* the crawl a well-formed message is to trigger: detail by id, or
\* resolution of the alternate key followed by the crawl
ExpectedRoute(msg) ==
    IF msg.action = "CHANNEL_INFO"
    THEN (IF msg.id = "yes" THEN "crawl_channel_by_id" ELSE "crawl_channel_by_custom_urls")
    ELSE (IF msg.id = "yes" THEN "crawl_video_by_ids" ELSE "crawl_video_by_urls")

\* C23: a CHANNEL_INFO message with an id triggers the detail fetch by id and
\* with only the alternate key the resolve-then-fetch; a VIDEO_INFO message
\* with an id triggers the video detail and comment fetch and with only a url
\* the resolution and a crawl; no well-formed message is acknowledged
\* without its crawl having been run.
C23_RoutedBeforeAck ==
    (~Malformed(mq.msg) /\ mq.deliveries > 0) =>
        /\ mq.crawl = ExpectedRoute(mq.msg)
        /\ mq.state = "acked" => mq.crawls > 0

\* a request of the running call was refused with quotaExceeded in this step
BudgetExceeded ==
    /\ api.pc = "loop"
    /\ api.youtube # None
    /\ api'.last = "quotaExceeded"
    /\ Response(api, remote) = "quotaExceeded"

\* C24: whenever a remote call fails with the budget-exceeded signal, the
\* rotation marks the credential that was in use as exhausted in the pool,
\* also when its recorded remaining budget is still positive, and the call
\* does not go on with that same credential
C24_RotationMarksExhausted ==
    [][BudgetExceeded =>
          /\ apool'[api.youtube].status = "unactive"
          /\ api'.pc = "loop" => api'.youtube # api.youtube]_vars

PaginatedStages == {"search", "playlist"}

\* the pages are the first pages of the result set, each once and in order
InOrder(pages) == \A j \in 1..Len(pages) : pages[j] = j - 1

\* C25: in the paginated stages, after a budget-exceeded failure and a
\* successful rotation the next request carries the same page cursor; no
\* page is skipped and none is fetched twice, so a call that ends at the end
\* of the cursor or at the result cap has obtained the same pages as a run
\* without the failure
C25_SameCursorAfterRotation ==
    /\ [](api.stage \in PaginatedStages =>
            /\ InOrder(api.pages)
            /\ api.exit \in {"cursor", "cap"} =>
                  Len(api.pages) = Min(api.total, api.cap))
    /\ [][(api.stage \in PaginatedStages /\ BudgetExceeded /\ api'.pc = "loop") =>
             api'.next_page_token = api.next_page_token]_vars

\* a listing of MaxPages pages that was refused at its second or third page,
\* rotated, and ran to the end of the cursor
C25_Witness ==
    /\ api.stage \in PaginatedStages
    /\ api.pc = "returned" /\ api.exit = "cursor"
    /\ api.rotated_at >= 1
    /\ api.pages = <<0, 1, 2>>

\* another credential than the one in use is active in the pool
OtherActive == \E k \in ApiKeys \ {api.youtube} : apool[k].status = "active"

\* C26: when the detail call for an id batch is refused with budget exceeded
\* and another active credential exists, the call goes on and its next
\* request is for that same batch, so that no batch is missing from the result
C26_BatchRetriedAfterRotation ==
    [][(api.stage = "detail" /\ BudgetExceeded /\ OtherActive) =>
          /\ api'.pc = "loop"
          /\ api'.i = api.i
          /\ api'.youtube # api.youtube]_vars

\* C27: whatever the remote API and the pool do, search_channel_by_keyword
\* eventually returns (the cursor ran out, the result cap was reached or no
\* credential was left); it never goes on for ever requesting and rotating
C27_SearchTerminates ==
    api.method = "search_channel_by_keyword" => <>(api.pc = "returned")

\* C30: every successful remote call is charged to the pool when it is made:
\* for each credential, the total deducted from its budget equals the sum of
\* the costs of the calls made with it
C30_EveryCallCharged ==
    \A k \in ApiKeys : ledger[k].charged = ledger[k].spent

\* C28: once the expansion has completed for the channels at crawled_channel
\* each of them has status crawled_video, also a channel whose expansion
\* found no video (empty or missing uploads playlist); and a channel has
\* that status only when the videos found for it are in the store
C28_ExpandRetiresParent ==
    /\ ex.pc = "done" =>
          \A c \in StageIds : ex.chan[c].status = "crawled_video"
    /\ \A c \in StageIds :
          ex.chan[c].status = "crawled_video" => ex.stored[c] = ex.chan[c].kids

\* C29: a video has status crawled_comment only when the comments fetched
\* for it are in the store; when the write of the comments failed the video
\* keeps crawled_video
C29_AdvancedAfterCommentsWritten ==
    \A v \in StageIds :
        lf.status[v] = "crawled_comment" => lf.stored[v] = lf.fetched[v]

\* the video of the batch just completed
LastVideo == lf.i - 1

Attempted(th) == [j \in 1..Len(th.log) |-> th.log[j].keyword]

\* C31: a thread whose keyword fails goes on with the remaining keywords of
\* its batch, so that a thread that has ended went through every keyword of
\* its batch in order; and a step of one thread leaves the other threads'
\* batches and progress as they were
C31_FailureAbortsOnlyKeyword ==
    /\ [](\A t \in KbThreads :
            (kb[t].pc = "done" /\ kb[t].db = "open") =>
                Attempted(kb[t]) = kb[t].keywords)
    /\ [][\A t, u \in KbThreads :
            (t # u /\ kb'[t] # kb[t]) => kb'[u] = kb[u]]_vars

\* thread 1 failed on its first keyword and went through its second one,
\* thread 2 failed on its only keyword, and both have ended
C31_Witness ==
    /\ \A t \in KbThreads : kb[t].pc = "done"
    /\ Len(kb[1].log) = 2
    /\ KeywordFailed(kb[1].log[1].outcome)
    /\ kb[1].log[2].outcome = "crawled"
    /\ Len(kb[2].log) = 1
    /\ KeywordFailed(kb[2].log[1].outcome)

C32_NoRecordPickedTwice ==
    bl.run[1].picked \cap bl.run[2].picked = {}

\* the runs that were started
StartedRuns == {r \in BlRuns : bl.run[r].pc # "not started"}

\* C33: once the runs that were started have returned, every record that had
\* status X when they started has been picked up by one of them.
C33_BacklogCompleted ==
    (\A r \in StartedRuns : bl.run[r].pc = "returned")
        => bl.initial \subseteq UNION {bl.run[r].picked : r \in StartedRuns}

\* C34: when keys are added with a positive budget and then only charged and
\* reset, a key's status is active exactly when its remaining budget is
\* greater than 0, in every state and under either manager.
C34_ActiveIffBudgetLeft ==
    \A k \in DOMAIN table :
        (table[k].status = "active") <=> (table[k].remaining_quota > 0)

\* the number of keys of the loop
K == Cardinality(AllKeys)

\* the acquisitions from the i-th on, K of them, each but the last followed
\* by a charge that succeeded
FairWindow(i) ==
    /\ i + K - 1 <= Len(fr.hist)
    /\ \A j \in i..(i + K - 2) : fr.hist[j].ok = "True"

\* C35: in the loop of get_api_key() and update_quota(), K consecutive
\* acquisitions whose charges succeeded return each of the K keys once, and a
\* rejected charge changes no row, so the order of the keys stays as it was.
C35_RotationIsFair ==
    /\ [](\A i \in 1..MaxAcquisitions :
            FairWindow(i) => {fr.hist[j].key : j \in i..(i + K - 1)} = AllKeys)
    /\ [][(fr.pc = "charge" /\ fr'.hist[Len(fr.hist)].ok = "False")
            => fr'.table = fr.table]_vars

\* the loop went twice round the keys, and one of its charges was rejected
C35_Witness ==
    /\ \E i \in 1..MaxAcquisitions : FairWindow(i) /\ i + K <= Len(fr.hist) /\ FairWindow(i + 1)
    /\ \E j \in 1..Len(fr.hist) : fr.hist[j].ok = "False"

\* C36: in each search method, a successful call made after a rotation is
\* charged to the key of the service that made it, the current key, not to
\* the key the method read before its loop.
C36_ChargedToCurrentKey ==
    [][(/\ api.stage = "search"
        /\ api.pc = "loop"
        /\ Response(api, remote) = "ok")
          => api.used_api_key = api.youtube]_vars

\* C37: after the RabbitMQ consumer's handler raised on a message or could
\* not decode it, the message that arrives behind it is still delivered and
\* processed.
C37_LaterMessageDelivered ==
    [](( /\ mq.kind = "rabbitmq"
         /\ mq.deliveries > 0
         /\ mq.outcome \in {"raised", "JSONDecodeError"})
           => <>(mq.later = "acked"))

====
